---- MODULE Spec2Model ----
(***************************************************************************)
(* Freshrelease MCP gateway: the tool dispatchers of the repository and    *)
(* the upstream HTTP requests they issue.                                  *)
(*                                                                         *)
(* Dispatchers modelled (field disp of an invocation):                     *)
(*   "sdk"     src/src/index.ts      CallToolRequestSchema handler         *)
(*   "mcp"     src/src/server.ts     app.post('/mcp') tools/call           *)
(*   "session" src/unnamed/part_001  CallToolRequestSchema handler         *)
(*   "mcp0"    src/unnamed/part_005  app.post('/mcp') tools/call           *)
(*                                                                         *)
(* JavaScript runs a handler without interruption between two awaits, so   *)
(* one action is the code from one await to the next: the start of a call  *)
(* up to its first fetch, and the code that follows a fetch's response.    *)
(***************************************************************************)
EXTENDS Integers, Sequences, FiniteSets, TLC

VARIABLES
    calls,       \* per invocation slot: the handler's locals, requests, outcome
    config,      \* process-wide default credential (config.apiToken / env)
    API_TOKEN    \* part_001: the mutable current-credential cell

vars == <<calls, config, API_TOKEN>>

(***************************************************************************)
(* Bounds of the model.                                                    *)
(***************************************************************************)
\* upstream issue ids are 1..MaxIssueId
MaxIssueId == 2
\* number of distinct per-call credentials
NumTokens == 2

(***************************************************************************)
(* JavaScript values. A string is the sequence of its characters.          *)
(***************************************************************************)
Undef == [t |-> "undefined", s |-> <<>>, n |-> 0]
Null == [t |-> "null", s |-> <<>>, n |-> 0]
NaN == [t |-> "NaN", s |-> <<>>, n |-> 0]
Obj == [t |-> "object", s |-> <<>>, n |-> 0]
EmptyArray == [t |-> "array", s |-> <<>>, n |-> 0]
False == [t |-> "false", s |-> <<>>, n |-> 0]
Str(chars) == [t |-> "string", s |-> chars, n |-> 0]
Num(k) == [t |-> "number", s |-> <<>>, n |-> k]

\* ToBoolean: what `if (x)`, `!x` and `x || y` test
Truthy(v) ==
    CASE v.t = "string" -> v.s # <<>>
      [] v.t = "number" -> v.n # 0
      [] v.t \in {"object", "array"} -> TRUE
      [] OTHER -> FALSE

\* x || d
OrDefault(v, d) == IF Truthy(v) THEN v ELSE d

\* const { x = d } = args : the default replaces undefined only
DestructureDefault(v, d) == IF v.t = "undefined" THEN d ELSE v

Digits == <<"0", "1", "2", "3", "4", "5", "6", "7", "8", "9">>
IsDigit(ch) == \E i \in 1..10 : Digits[i] = ch
DigitVal(ch) == (CHOOSE i \in 1..10 : Digits[i] = ch) - 1

RECURSIVE DigitPrefixVal(_, _)
\* value of the longest prefix of digits of chars, acc the value read so far
DigitPrefixVal(chars, acc) ==
    IF chars = <<>> \/ ~IsDigit(Head(chars)) THEN acc
    ELSE DigitPrefixVal(Tail(chars), acc * 10 + DigitVal(Head(chars)))

\* the digits of radix 16, in both letter cases
HexLower == <<"0", "1", "2", "3", "4", "5", "6", "7", "8", "9",
              "a", "b", "c", "d", "e", "f">>
HexUpper == <<"0", "1", "2", "3", "4", "5", "6", "7", "8", "9",
              "A", "B", "C", "D", "E", "F">>
IsHexDigit(ch) == \E i \in 1..16 : HexLower[i] = ch \/ HexUpper[i] = ch
HexVal(ch) == (CHOOSE i \in 1..16 : HexLower[i] = ch \/ HexUpper[i] = ch) - 1

RECURSIVE HexPrefixVal(_, _)
HexPrefixVal(chars, acc) ==
    IF chars = <<>> \/ ~IsHexDigit(Head(chars)) THEN acc
    ELSE HexPrefixVal(Tail(chars), acc * 16 + HexVal(Head(chars)))

\* StrWhiteSpaceChar: what parseInt skips at the start of its input; of the
\* ASCII characters these are space, tab, line feed, vertical tab (U+000B,
\* written as the character itself), form feed and carriage return
WhiteSpace == {" ", "\t", "\n", "", "\f", "\r"}
RECURSIVE TrimStart(_)
TrimStart(chars) ==
    IF chars # <<>> /\ Head(chars) \in WhiteSpace THEN TrimStart(Tail(chars))
    ELSE chars

\* the digits of parseInt's input after white space and sign: radix 16
\* after a 0x or 0X prefix, radix 10 otherwise; NaN when no digit is there
ParseDigits(chars, sign) ==
    IF Len(chars) >= 2 /\ chars[1] = "0" /\ chars[2] \in {"x", "X"}
    THEN IF Len(chars) >= 3 /\ IsHexDigit(chars[3])
         THEN Num(sign * HexPrefixVal(SubSeq(chars, 3, Len(chars)), 0))
         ELSE NaN
    ELSE IF chars # <<>> /\ IsDigit(Head(chars))
         THEN Num(sign * DigitPrefixVal(chars, 0))
         ELSE NaN

\* parseInt(v) with no radix: leading white space is skipped, then a sign,
\* then the integer the rest starts with; NaN when it starts with none
parseInt(v) ==
    CASE v.t = "number" -> v
      [] v.t = "string" ->
            LET s == TrimStart(v.s) IN
            IF s # <<>> /\ Head(s) = "-" THEN ParseDigits(Tail(s), -1)
            ELSE IF s # <<>> /\ Head(s) = "+" THEN ParseDigits(Tail(s), 1)
            ELSE ParseDigits(s, 1)
      [] OTHER -> NaN

RECURSIVE NatChars(_)
NatChars(k) ==
    IF k < 10 THEN <<Digits[k + 1]>>
    ELSE NatChars(k \div 10) \o <<Digits[(k % 10) + 1]>>

\* `${v}` : the characters a template literal puts for v
TemplateStr(v) ==
    CASE v.t = "string" -> v.s
      [] v.t = "number" ->
            IF v.n < 0 THEN <<"-">> \o NatChars(0 - v.n) ELSE NatChars(v.n)
      [] v.t = "undefined" -> <<"undefined">>
      [] v.t = "null" -> <<"null">>
      [] v.t = "NaN" -> <<"NaN">>
      [] v.t = "false" -> <<"false">>
      [] v.t = "array" -> <<>>
      [] OTHER -> <<"[object Object]">>

\* JSON.stringify of a property value: NaN is written as null
JsonValue(v) == IF v.t = "NaN" THEN Null ELSE v

\* JSON.stringify of an object given as a function from property names to
\* values: a property whose value is undefined is not written
JSONStringify(obj) ==
    [k \in {f \in DOMAIN obj : obj[f].t # "undefined"} |-> JsonValue(obj[k])]

UpperCase ==
    <<"A", "B", "C", "D", "E", "F", "G", "H", "I", "J", "K", "L", "M",
      "N", "O", "P", "Q", "R", "S", "T", "U", "V", "W", "X", "Y", "Z">>
LowerCase ==
    <<"a", "b", "c", "d", "e", "f", "g", "h", "i", "j", "k", "l", "m",
      "n", "o", "p", "q", "r", "s", "t", "u", "v", "w", "x", "y", "z">>
\* the lower-case letter of each of A..Z
LowerOf ==
    [ch \in {UpperCase[i] : i \in 1..Len(UpperCase)} |->
        LowerCase[CHOOSE i \in 1..Len(UpperCase) : UpperCase[i] = ch]]
\* any other character is kept
LowerChar(ch) == IF ch \in DOMAIN LowerOf THEN LowerOf[ch] ELSE ch

\* String.prototype.toLowerCase
toLowerCase(chars) == [i \in 1..Len(chars) |-> LowerChar(chars[i])]

\* String.prototype.includes
includes(chars, sub) ==
    \E i \in 1..(Len(chars) - Len(sub) + 1) :
        SubSeq(chars, i, i + Len(sub) - 1) = sub

\* issue_key.split('-')[0] and the number of parts
FirstDash(chars) ==
    IF \E i \in 1..Len(chars) : chars[i] = "-"
    THEN CHOOSE i \in 1..Len(chars) :
            chars[i] = "-" /\ \A j \in 1..(i - 1) : chars[j] # "-"
    ELSE 0
SplitParts(chars) == Cardinality({i \in 1..Len(chars) : chars[i] = "-"}) + 1

\* a derivation that falls back to the default project for a key without '-'
extractProjectKeyOrDefault(issue_key) ==
    IF issue_key.t # "string" THEN [threw |-> "type_error", value |-> <<>>]
    ELSE IF SplitParts(issue_key.s) < 2
         THEN [threw |-> "", value |-> <<"F", "B", "O", "T", "S">>]
         ELSE [threw |-> "", value |-> SubSeq(issue_key.s, 1, FirstDash(issue_key.s) - 1)]

\* extractProjectKey(issue_key): the part before the first '-'; throws when
\* the key has no '-' (fewer than two parts) or is not a string
extractProjectKey(issue_key) ==
    IF issue_key.t # "string" THEN [threw |-> "type_error", value |-> <<>>]
    ELSE IF SplitParts(issue_key.s) < 2
         THEN [threw |-> "invalid_issue_key", value |-> <<>>]
         ELSE [threw |-> "", value |-> SubSeq(issue_key.s, 1, FirstDash(issue_key.s) - 1)]

(***************************************************************************)
(* Program constants.                                                      *)
(***************************************************************************)
\* searchUserByName: const maxPages = 10
maxPages == 10
\* the project key used when none is supplied
FBOTS == Str(<<"F", "B", "O", "T", "S">>)
\* create_issue: const typeId = issue_type_id || "14"
DefaultTypeId == Str(<<"1", "4">>)

(***************************************************************************)
(* Tools.                                                                  *)
(***************************************************************************)
\* index.ts: the cases of switch (name)
SdkTools ==
    {"freshrelease_search_user_by_name", "freshrelease_get_issue",
     "freshrelease_get_statuses", "freshrelease_get_issue_types",
     "freshrelease_create_issue", "freshrelease_update_issue",
     "freshrelease_add_comment", "freshrelease_get_comments"}
\* server.ts /mcp: the cases of switch (name)
McpTools == SdkTools \cup {"freshrelease_get_users"}
\* part_001: the cases of switch (name)
SessionTools ==
    (McpTools \ {"freshrelease_search_user_by_name"})
        \cup {"freshrelease_set_api_token"}
\* part_005 /mcp: the names the if / else if chain tests
Mcp0Tools == {"freshrelease_get_users", "freshrelease_get_issue"}
\* a name no dispatcher knows
BogusTool == "freshrelease_delete_issue"
\* the registries in the order of their literals: index.ts ListTools,
\* server.ts TOOLS_DEFINITION, part_001 ListTools, part_005 tools/list
SdkToolsList ==
    <<"freshrelease_search_user_by_name", "freshrelease_get_issue",
      "freshrelease_get_statuses", "freshrelease_get_issue_types",
      "freshrelease_create_issue", "freshrelease_update_issue",
      "freshrelease_add_comment", "freshrelease_get_comments">>
TOOLS_DEFINITION == <<"freshrelease_get_users">> \o SdkToolsList
SessionToolsList ==
    <<"freshrelease_set_api_token", "freshrelease_get_users",
      "freshrelease_get_statuses", "freshrelease_get_issue_types",
      "freshrelease_get_issue", "freshrelease_create_issue",
      "freshrelease_update_issue", "freshrelease_add_comment",
      "freshrelease_get_comments">>
Mcp0ToolsList == <<"freshrelease_get_users", "freshrelease_get_issue">>

\* a registry that lists its first tool a second time
ToolsListRepeated(disp) ==
    CASE disp = "sdk" -> SdkToolsList \o <<SdkToolsList[1]>>
      [] disp = "mcp" -> TOOLS_DEFINITION \o <<TOOLS_DEFINITION[1]>>
      [] disp = "session" -> SessionToolsList \o <<SessionToolsList[1]>>
      [] OTHER -> Mcp0ToolsList \o <<Mcp0ToolsList[1]>>

\* what tools/list of a dispatcher returns
ToolsList(disp) ==
    CASE disp = "sdk" -> SdkToolsList
      [] disp = "mcp" -> TOOLS_DEFINITION
      [] disp = "session" -> SessionToolsList
      [] OTHER -> Mcp0ToolsList

\* { tools: [...] }
ToolsResult(tools) == [kind |-> "tools", tools |-> tools]

ToolNames == McpTools \cup SessionTools \cup {BogusTool}

Dispatchers == {"sdk", "mcp", "session", "mcp0"}
HandledBy(disp) ==
    CASE disp = "sdk" -> SdkTools
      [] disp = "mcp" -> McpTools
      [] disp = "session" -> SessionTools
      [] disp = "rest" -> McpTools
      [] OTHER -> Mcp0Tools

(***************************************************************************)
(* Errors, texts and outcomes.                                             *)
(***************************************************************************)
\* new Error(message): the message's wording and the value it embeds
Err(kind, arg) == [kind |-> kind, arg |-> arg]
ToolNameStr(name) == Str(<<name>>)

\* no error is pending
NoError == Err("", Undef)

\* `Error: ${error.message}`
ErrorText(err) == [form |-> "error", err |-> err]
\* JSON.stringify(payload, null, 2)
JsonText(payload) == [form |-> "json", payload |-> payload]
\* a fixed sentence
PlainText(what) == [form |-> "plain", what |-> what]

TextItem(text) == [type |-> "text", text |-> text]

NoOutcome == [kind |-> "none"]
\* return { content: [...] } and return { content: [...], isError: true }
Result(text, isError) ==
    [kind |-> "result", hasContent |-> TRUE, content |-> <<TextItem(text)>>,
     isError |-> isError]
\* result: { content } with content never assigned
ResultUndefinedContent ==
    [kind |-> "result", hasContent |-> FALSE, content |-> <<>>, isError |-> FALSE]
\* an exception that leaves the handler
Thrown(err) == [kind |-> "thrown", error |-> err]
\* res.status(500).json({ jsonrpc, id, error: { code: -32603, message } })
RpcError(err) == [kind |-> "rpc_error", error |-> err]
\* res.status(400 | 500).json({ error: message })
HttpError(status, err) == [kind |-> "http_error", status |-> status, error |-> err]

(***************************************************************************)
(* Upstream bodies, responses and requests.                                *)
(***************************************************************************)
User(id, name, email) == [id |-> id, name |-> name, email |-> email]

\* a parsed JSON body: { issue: { id } }, { users: [...] }, a list, an error
\* object; "raw" is the text of a body
Body(shape, id, users) == [shape |-> shape, id |-> id, users |-> users]
IssueBody(id) == Body("issue", id, <<>>)
UsersBody(users) == Body("users", Undef, users)
ListBody == Body("list", Undef, <<>>)
ErrBody == Body("error", Undef, <<>>)
RawBody == Body("raw", Undef, <<>>)

\* data?.issue?.id
IssueIdOf(body) == IF body.shape = "issue" THEN body.id ELSE Undef
\* data.users || []
UsersOf(body) == IF body.shape = "users" THEN body.users ELSE <<>>

\* the result of await fetch(...): net = FALSE when fetch rejects; parsable =
\* FALSE when response.json() rejects
Response(net, status, parsable, body) ==
    [net |-> net, status |-> status, parsable |-> parsable, body |-> body]
NetFail == Response(FALSE, 0, FALSE, RawBody)
\* no response object is held
NoResponse == Response(FALSE, 0, FALSE, RawBody)
Statuses == {200, 404, 500}
\* response.ok
Ok(r) == r.status >= 200 /\ r.status <= 299

Path(project, resource, id, sub, page) ==
    [project |-> project, resource |-> resource, id |-> id, sub |-> sub,
     page |-> page]

NoBodySent == [kind |-> "none"]
\* JSON.stringify({ issue: {...} })
IssueBodySent(issue) == [kind |-> "issue", issue |-> JSONStringify(issue)]
\* JSON.stringify({ content })
CommentBodySent(content) == [kind |-> "comment", content |-> JsonValue(content)]

\* a request that carries the bare credential and no Content-Type
RequestBareHeaders(method, path, token, body) ==
    [method |-> method, path |-> path,
     auth |-> TemplateStr(token),
     ctype |-> "", body |-> body]

\* headers: Authorization: `Token ${apiToken}`, Content-Type: application/json
Request(method, path, token, body) ==
    [method |-> method, path |-> path,
     auth |-> <<"Token ">> \o TemplateStr(token),
     ctype |-> "application/json", body |-> body]

(***************************************************************************)
(* Invocations.                                                            *)
(***************************************************************************)
ArgNames ==
    {"api_token", "name", "project_key", "issue_key", "title", "description",
     "issue_type_id", "status_id", "owner_id", "priority_id", "content",
     "page", "issue_id", "custom_fields", "project_id"}

\* request.params.arguments: present = FALSE when the request carries none
EmptyArgs ==
    [present |-> TRUE, api_token |-> Undef, name |-> Undef,
     project_key |-> Undef, issue_key |-> Undef, title |-> Undef,
     description |-> Undef, issue_type_id |-> Undef, status_id |-> Undef,
     owner_id |-> Undef, priority_id |-> Undef, content |-> Undef,
     page |-> Undef, issue_id |-> Undef, custom_fields |-> Undef,
     project_id |-> Undef]
NoArgs == [EmptyArgs EXCEPT !.present = FALSE]

\* one invocation: the handler's position and locals, the upstream users
\* listing it is served from, the requests it has issued (sent), the
\* responses it has received (got), the response whose body it waits for
\* (response), its outcome
IdleCall ==
    [pc |-> "idle", disp |-> "", name |-> "", args |-> EmptyArgs,
     token |-> Undef, project |-> <<>>, issue_id |-> Undef, page |-> 0,
     allUsers |-> <<>>, listing |-> <<>>, sent |-> <<>>, got |-> <<>>,
     response |-> NoResponse, thrown |-> NoError, outcome |-> NoOutcome]

Begin(disp, name, args, listing) ==
    [IdleCall EXCEPT !.pc = "run", !.disp = disp, !.name = name, !.args = args,
                     !.listing = listing]

Finish(cr, outcome) == [cr EXCEPT !.pc = "done", !.outcome = outcome]

\* await fetch(url, { method, headers, body }): the request leaves, the
\* handler waits at pc
Send(cr, req, pc) == [cr EXCEPT !.sent = Append(@, req), !.pc = pc]

\* the handler has the answer r: its status and, where it read it, its body
Receive(cr, r) == [cr EXCEPT !.got = Append(@, r)]

\* const response = await fetch(...) has settled with r and the handler
\* waits at pc for await response.json()
Suspend(cr, r, pc) == [cr EXCEPT !.response = r, !.pc = pc]

\* await response.json() settles for the response held
Resume(cr) == Receive([cr EXCEPT !.response = NoResponse], cr.response)

\* an async helper threw before its first await: the promise the handler
\* awaits is rejected, and the handler's catch runs after it has yielded
Reject(cr, err) == [cr EXCEPT !.pc = "await_rejected", !.thrown = err]

\* index.ts: catch (error) { return { content: [...], isError: true } }
SdkCatch(cr, err) == Finish(cr, Result(ErrorText(err), TRUE))
\* part_001: catch (error) { return { content: [...], isError: true } }
SessionCatch(cr, err) == Finish(cr, Result(ErrorText(err), TRUE))
\* server.ts /mcp: catch (error) { res.status(500).json({ ..., error }) }
McpCatch(cr, err) == Finish(cr, RpcError(err))
\* part_005 /mcp: catch (error) { res.status(500).json({ ..., error }) }
Mcp0Catch(cr, err) == Finish(cr, RpcError(err))
\* server.ts /tools/call: catch (error) { res.status(500).json({ error }) }
RestCatch(cr, err) == Finish(cr, HttpError(500, err))

\* the catch block around the running handler
Catch(cr, err) ==
    CASE cr.disp = "sdk" -> SdkCatch(cr, err)
      [] cr.disp = "session" -> SessionCatch(cr, err)
      [] cr.disp = "mcp" -> McpCatch(cr, err)
      [] cr.disp = "rest" -> RestCatch(cr, err)
      [] OTHER -> Mcp0Catch(cr, err)

(***************************************************************************)
(* Credential and payloads.                                                *)
(***************************************************************************)
\* a resolution in the other order: the configured credential first
ResolveTokenConfigFirst(args, cfg) == OrDefault(cfg, args.api_token)

\* const apiToken = args?.api_token || config.apiToken
ResolveToken(args, cfg) == OrDefault(args.api_token, cfg)

\* server.ts: const DEFAULT_API_TOKEN = process.env.FRESHRELEASE_API_TOKEN || ''
DEFAULT_API_TOKEN(cfg) == OrDefault(cfg, Str(<<>>))

\* an update body that writes all six fields, null for one not supplied
UpdatePayloadAllFields(args) ==
    [f \in {"key", "title", "description", "issue_type_id", "status_id",
            "owner_id", "priority_id"} |->
        IF f = "key" THEN args.issue_key
        ELSE IF ~Truthy(args[f]) THEN Null
        ELSE IF f \in {"title", "description"} THEN args[f]
        ELSE parseInt(args[f])]

\* update_issue: { issue: { key: issue_key } } and one assignment per truthy
\* optional argument, the ids through parseInt
UpdatePayload(args) ==
    [f \in {"key"}
        \cup {g \in {"title", "description", "issue_type_id", "status_id",
                     "owner_id", "priority_id"} : Truthy(args[g])} |->
        IF f = "key" THEN args.issue_key
        ELSE IF f \in {"title", "description"} THEN args[f]
        ELSE parseInt(args[f])]

\* part_001 update_issue: the values as given, and custom_field
SessionUpdatePayload(args) ==
    [f \in {"key"}
        \cup {g \in {"title", "description", "issue_type_id", "status_id",
                     "priority_id", "owner_id"} : Truthy(args[g])}
        \cup {g \in {"custom_field"} : Truthy(args.custom_fields)} |->
        IF f = "key" THEN args.issue_key
        ELSE IF f = "custom_field" THEN args.custom_fields
        ELSE args[f]]

\* create_issue: the issue object of the payload
CreatePayload(args, project_key) ==
    [f \in {"title", "description", "key", "issue_type_id", "owner_id",
            "priority_id", "status_id"} |->
        CASE f = "title" -> args.title
          [] f = "description" -> OrDefault(args.description, Str(<<>>))
          [] f = "key" -> project_key
          [] f = "issue_type_id" ->
                parseInt(OrDefault(args.issue_type_id, DefaultTypeId))
          [] OTHER -> IF Truthy(args[f]) THEN parseInt(args[f]) ELSE Null]

SessionNullFields ==
    {"story_points", "effort", "duration", "blocked_days", "blocked_reason",
     "parent_title", "parent_issue_type_id", "epic_title", "epic_id",
     "eta_flag", "position", "sprint_issue_status", "previous_issue_id",
     "next_issue_id", "creater_id", "parent_id", "priority_id",
     "sub_project_id", "reporter_id", "sprint_id", "status_id", "release_id",
     "form_id", "workflow_id"}
SessionFalseFields ==
    {"resolved", "blocked", "following", "auto_close_descendants"}

\* part_001 create_issue: the issue object of issueData
SessionCreatePayload(args) ==
    [f \in {"title", "description", "key", "issue_type_id", "owner_id",
            "project_id", "tags", "custom_field"}
        \cup SessionNullFields \cup SessionFalseFields |->
        CASE f \in {"title", "description", "issue_type_id", "owner_id",
                    "project_id"} -> args[f]
          [] f = "key" -> FBOTS
          [] f = "tags" -> EmptyArray
          [] f = "custom_field" -> OrDefault(args.custom_fields, Obj)
          [] f \in SessionFalseFields -> False
          [] OTHER -> Null]

(***************************************************************************)
(* The requests the handlers build.                                        *)
(***************************************************************************)
\* GET /{project_key}/users?page={page}
UsersPageRequest(project, page, token) ==
    Request("GET", Path(project, "users", <<>>, "", TemplateStr(page)), token,
            NoBodySent)
\* GET /{project_key}/statuses and /{project_key}/issue_types
CollectionRequest(project, resource, token) ==
    Request("GET", Path(project, resource, <<>>, "", <<>>), token, NoBodySent)
\* GET or PUT /{project_key}/issues/{issue_key}
IssueRequest(method, project, key, token, body) ==
    Request(method, Path(project, "issues", key, "", <<>>), token, body)
\* POST /{project_key}/issues
CreateRequest(project, token, body) ==
    Request("POST", Path(project, "issues", <<>>, "", <<>>), token, body)
\* GET or POST /{project_key}/issues/{issue_id}/comments
CommentsRequest(method, project, id, token, body) ==
    Request(method, Path(project, "issues", id, "comments", <<>>), token, body)

(***************************************************************************)
(* searchUserByName.                                                       *)
(***************************************************************************)
\* let allUsers = [], page = 1; the first pass of while (page <= maxPages)
\* up to its fetch
StartSearch(cr, project_key) ==
    Send([cr EXCEPT !.project = TemplateStr(project_key), !.page = 1,
                    !.allUsers = <<>>],
         UsersPageRequest(TemplateStr(project_key), Num(1), cr.token),
         "await_page")

\* u.name?.toLowerCase().includes(searchLower): ?. stops on undefined and
\* null; any other value that is no string has no toLowerCase, a TypeError
FieldIncludes(v, searchLower) ==
    IF v.t \in {"undefined", "null"} THEN [threw |-> "", value |-> FALSE]
    ELSE IF v.t # "string" THEN [threw |-> "type_error", value |-> FALSE]
    ELSE [threw |-> "", value |-> includes(toLowerCase(v.s), searchLower)]

\* name || email: the email is looked at when the name gave false
UserMatches(u, searchLower) ==
    LET byName == FieldIncludes(u.name, searchLower) IN
    IF byName.threw # "" \/ byName.value THEN byName
    ELSE FieldIncludes(u.email, searchLower)

\* a find that returns the last matching user
FindLastUser(allUsers, searchLower) ==
    IF \E i \in 1..Len(allUsers) : UserMatches(allUsers[i], searchLower).value
    THEN [threw |-> "",
          value |-> CHOOSE i \in 1..Len(allUsers) :
            /\ UserMatches(allUsers[i], searchLower).value
            /\ \A j \in (i + 1)..Len(allUsers) :
                    ~UserMatches(allUsers[j], searchLower).value]
    ELSE [threw |-> "", value |-> 0]

\* allUsers.find(...) from user i on: the callback is called on one user
\* after the other; it throws, or returns true, or the next user is tried
RECURSIVE FindFrom(_, _, _)
FindFrom(allUsers, searchLower, i) ==
    IF i > Len(allUsers) THEN [threw |-> "", value |-> 0]
    ELSE IF UserMatches(allUsers[i], searchLower).threw # ""
    THEN [threw |-> "type_error", value |-> 0]
    ELSE IF UserMatches(allUsers[i], searchLower).value
    THEN [threw |-> "", value |-> i]
    ELSE FindFrom(allUsers, searchLower, i + 1)

\* allUsers.find(...): value is the index of the first matching user, 0
\* when none; threw when the callback throws before a match
FindUser(allUsers, searchLower) ==
    CHOOSE found \in {FindFrom(users, lower, 1) :
                        users \in {allUsers}, lower \in {searchLower}} : TRUE

\* { found: true, user: { id, name, email } } as JSON.stringify writes it
FoundPayload(u) ==
    [kind |-> "search", found |-> TRUE,
     user |-> JSONStringify([f \in {"id", "name", "email"} |-> u[f]])]
\* { found: false, searched_name: searchName }
NotFoundPayload(searchName) ==
    [kind |-> "search", found |-> FALSE, searched_name |-> searchName]

\* the search over allUsers and the payload returned
SearchResult(allUsers, searchName) ==
    LET i == FindUser(allUsers, toLowerCase(searchName.s)).value
    IN  IF i # 0 THEN FoundPayload(allUsers[i]) ELSE NotFoundPayload(searchName)

\* a search that reports a miss as an error
SearchFinishErrorOnMiss(cr) ==
    IF cr.args.name.t # "string" THEN Catch(cr, Err("type_error", Undef))
    ELSE Finish(cr, Result(JsonText(SearchResult(cr.allUsers, cr.args.name)),
                           FindUser(cr.allUsers, toLowerCase(cr.args.name.s)).value = 0))

\* after the loop: searchName.toLowerCase() throws on a name that is no
\* string, and find throws on a user's name or email that is neither a
\* string nor absent; otherwise the dispatcher returns the payload as content
SearchFinish(cr) ==
    IF cr.args.name.t # "string" THEN Catch(cr, Err("type_error", Undef))
    ELSE IF FindUser(cr.allUsers, toLowerCase(cr.args.name.s)).threw # ""
    THEN Catch(cr, Err("type_error", Undef))
    ELSE Finish(cr, Result(JsonText(SearchResult(cr.allUsers, cr.args.name)),
                           FALSE))

\* a loop that stops fetching at the first page holding a match
SearchPageStopAtMatch(cr, r) ==
    IF ~r.net THEN Catch(cr, Err("fetch_failed", Undef))
    ELSE IF ~Ok(r) THEN SearchFinish(cr)
    ELSE IF ~r.parsable THEN Catch(cr, Err("json_syntax", Undef))
    ELSE LET users == UsersOf(r.body) IN
         IF Len(users) = 0 THEN SearchFinish(cr)
         ELSE LET c2 == [cr EXCEPT !.allUsers = @ \o users, !.page = @ + 1] IN
              IF c2.page <= maxPages
                    /\ FindUser(c2.allUsers, toLowerCase(TemplateStr(cr.args.name))).value = 0
              THEN Send(c2, UsersPageRequest(c2.project, Num(c2.page), c2.token),
                        "await_page")
              ELSE SearchFinish(c2)

\* a loop whose ceiling is off by one
SearchPageOneMore(cr, r) ==
    IF ~r.net THEN Catch(cr, Err("fetch_failed", Undef))
    ELSE IF ~Ok(r) THEN SearchFinish(cr)
    ELSE IF ~r.parsable THEN Catch(cr, Err("json_syntax", Undef))
    ELSE LET users == UsersOf(r.body) IN
         IF Len(users) = 0 THEN SearchFinish(cr)
         ELSE LET c2 == [cr EXCEPT !.allUsers = @ \o users, !.page = @ + 1] IN
              IF c2.page <= maxPages + 1
              THEN Send(c2, UsersPageRequest(c2.project, Num(c2.page), c2.token),
                        "await_page")
              ELSE SearchFinish(c2)

\* a loop that looks for the name in each page as it arrives and ends at a
\* page that holds a match
SearchPageMatchEarly(cr, r) ==
    IF ~r.net THEN Catch(cr, Err("fetch_failed", Undef))
    ELSE IF ~Ok(r) THEN SearchFinish(cr)
    ELSE IF ~r.parsable THEN Catch(cr, Err("json_syntax", Undef))
    ELSE LET users == UsersOf(r.body) IN
         IF Len(users) = 0 THEN SearchFinish(cr)
         ELSE LET c2 == [cr EXCEPT !.allUsers = @ \o users, !.page = @ + 1] IN
              IF c2.page <= maxPages
                    /\ FindUser(users, toLowerCase(TemplateStr(cr.args.name))).value = 0
              THEN Send(c2, UsersPageRequest(c2.project, Num(c2.page), c2.token),
                        "await_page")
              ELSE SearchFinish(c2)

\* a loop that reports a page answered with a non-success status as an error
SearchPageFailOnStatus(cr, r) ==
    IF ~r.net THEN Catch(cr, Err("fetch_failed", Undef))
    ELSE IF ~Ok(r) THEN Catch(cr, Err("issue_not_found", cr.args.name))
    ELSE IF ~r.parsable THEN Catch(cr, Err("json_syntax", Undef))
    ELSE LET users == UsersOf(r.body) IN
         IF Len(users) = 0 THEN SearchFinish(cr)
         ELSE LET c2 == [cr EXCEPT !.allUsers = @ \o users, !.page = @ + 1] IN
              IF c2.page <= maxPages
              THEN Send(c2, UsersPageRequest(c2.project, Num(c2.page), c2.token),
                        "await_page")
              ELSE SearchFinish(c2)

\* the loop body after a page's response, and the next pass up to its fetch
SearchPage(cr, r) ==
    IF ~r.net THEN Catch(cr, Err("fetch_failed", Undef))
    ELSE IF ~Ok(r) THEN SearchFinish(cr)
    ELSE IF ~r.parsable THEN Catch(cr, Err("json_syntax", Undef))
    ELSE LET users == UsersOf(r.body) IN
         IF Len(users) = 0 THEN SearchFinish(cr)
         ELSE LET c2 == [cr EXCEPT !.allUsers = @ \o users, !.page = @ + 1] IN
              IF c2.page <= maxPages
              THEN Send(c2, UsersPageRequest(c2.project, Num(c2.page), c2.token),
                        "await_page")
              ELSE SearchFinish(c2)

(***************************************************************************)
(* getIssueIdFromKey and the second step of add_comment / get_comments.    *)
(***************************************************************************)
\* getIssueIdFromKey up to its fetch
StartResolve(cr, project) ==
    Send([cr EXCEPT !.project = project],
         IssueRequest("GET", project, TemplateStr(cr.args.issue_key), cr.token,
                      NoBodySent),
         "await_resolve")

\* a second step addressed by the issue key in place of the resolved id
SecondRequestByKey(cr, issue_id) ==
    IF cr.name = "freshrelease_add_comment"
    THEN CommentsRequest("POST", cr.project, TemplateStr(cr.args.issue_key),
                         cr.token, CommentBodySent(cr.args.content))
    ELSE CommentsRequest("GET", cr.project, TemplateStr(cr.args.issue_key),
                         cr.token, NoBodySent)

\* the request of step 2
SecondRequest(cr, issue_id) ==
    IF cr.name = "freshrelease_add_comment"
    THEN CommentsRequest("POST", cr.project, TemplateStr(issue_id), cr.token,
                         CommentBodySent(cr.args.content))
    ELSE CommentsRequest("GET", cr.project, TemplateStr(issue_id), cr.token,
                         NoBodySent)

\* a resolution that goes on to the second step with whatever it was sent
ResolveIssueIdUnchecked(cr, r) ==
    IF ~r.net THEN Catch(cr, Err("fetch_failed", Undef))
    ELSE IF ~r.parsable THEN Catch(cr, Err("json_syntax", Undef))
    ELSE LET issue_id == IssueIdOf(r.body) IN
         Send([cr EXCEPT !.issue_id = issue_id],
              SecondRequest(cr, issue_id), "await_primary")

\* getIssueIdFromKey after its fetch, then the caller up to its own fetch
ResolveIssueId(cr, r) ==
    IF ~r.net THEN Catch(cr, Err("fetch_failed", Undef))
    ELSE IF ~Ok(r) THEN Catch(cr, Err("issue_not_found", cr.args.issue_key))
    ELSE IF ~r.parsable THEN Catch(cr, Err("json_syntax", Undef))
    ELSE LET issue_id == IssueIdOf(r.body) IN
         IF ~Truthy(issue_id) THEN Catch(cr, Err("no_issue_id", Undef))
         ELSE Send([cr EXCEPT !.issue_id = issue_id],
                   SecondRequest(cr, issue_id), "await_primary")

(***************************************************************************)
(* Payloads of the content text.                                           *)
(***************************************************************************)
\* the upstream body as parsed
UpstreamPayload(body) == [kind |-> "upstream", body |-> body]
\* { error: "Issue not found" }
IssueNotFoundPayload == [kind |-> "issue_not_found"]
\* { error: errorData } with errorData = await apiResponse.text()
UpstreamErrorPayload(body) == [kind |-> "upstream_error", body |-> body]
\* { success: true, issue_key, issue_id, comment: commentData }
CommentAddedPayload(issue_key, issue_id, data) ==
    [kind |-> "comment_added", success |-> TRUE, issue_key |-> issue_key,
     issue_id |-> issue_id, comment |-> data]
\* { issue_key, issue_id, comments: commentsData }
CommentsPayload(issue_key, issue_id, data) ==
    [kind |-> "comments", issue_key |-> issue_key, issue_id |-> issue_id,
     comments |-> data]

\* a payload that is the upstream body alone, without issue_key and issue_id
FinalPayloadBare(cr, body) == UpstreamPayload(body)

\* the payload a handler makes of the parsed body of its last fetch
FinalPayload(cr, body) ==
    CASE cr.name = "freshrelease_add_comment" ->
            CommentAddedPayload(cr.args.issue_key, cr.issue_id, body)
      [] cr.name = "freshrelease_get_comments" ->
            CommentsPayload(cr.args.issue_key, cr.issue_id, body)
      [] OTHER -> UpstreamPayload(body)

(***************************************************************************)
(* index.ts: the CallToolRequestSchema handler.                            *)
(***************************************************************************)
\* the handler from its entry to its first await or its return
SdkCallTool(cr, cfg) ==
    LET args == cr.args
        name == cr.name
        apiToken == ResolveToken(args, cfg)
        c == [cr EXCEPT !.token = apiToken]
    IN
    IF ~Truthy(apiToken) THEN Finish(c, Thrown(Err("token_required", Undef)))
    ELSE
    CASE name = "freshrelease_search_user_by_name" ->
            IF ~Truthy(args.name) THEN SdkCatch(c, Err("name_required", Undef))
            ELSE StartSearch(c, DestructureDefault(args.project_key, FBOTS))
      [] name \in {"freshrelease_get_issue", "freshrelease_update_issue",
                   "freshrelease_add_comment", "freshrelease_get_comments"} ->
            IF ~Truthy(args.issue_key) /\ name # "freshrelease_add_comment"
            THEN SdkCatch(c, Err("issue_key_required", Undef))
            ELSE IF name = "freshrelease_add_comment"
                    /\ (~Truthy(args.issue_key) \/ ~Truthy(args.content))
            THEN SdkCatch(c, Err("issue_key_and_content_required", Undef))
            ELSE LET pk == extractProjectKey(args.issue_key) IN
                 IF pk.threw # "" THEN SdkCatch(c, Err(pk.threw, args.issue_key))
                 ELSE CASE name = "freshrelease_get_issue" ->
                            Send([c EXCEPT !.project = pk.value],
                                 IssueRequest("GET", pk.value,
                                              TemplateStr(args.issue_key),
                                              apiToken, NoBodySent),
                                 "await_primary")
                        [] name = "freshrelease_update_issue" ->
                            Send([c EXCEPT !.project = pk.value],
                                 IssueRequest("PUT", pk.value,
                                              TemplateStr(args.issue_key),
                                              apiToken,
                                              IssueBodySent(UpdatePayload(args))),
                                 "await_primary")
                        [] OTHER -> StartResolve(c, pk.value)
      [] name \in {"freshrelease_get_statuses", "freshrelease_get_issue_types"} ->
            LET project_key == TemplateStr(OrDefault(args.project_key, FBOTS)) IN
            Send([c EXCEPT !.project = project_key],
                 CollectionRequest(project_key,
                                   IF name = "freshrelease_get_statuses"
                                   THEN "statuses" ELSE "issue_types",
                                   apiToken),
                 "await_primary")
      [] name = "freshrelease_create_issue" ->
            LET project_key == DestructureDefault(args.project_key, FBOTS) IN
            IF ~Truthy(args.title) THEN SdkCatch(c, Err("title_required", Undef))
            ELSE Send([c EXCEPT !.project = TemplateStr(project_key)],
                      CreateRequest(TemplateStr(project_key), apiToken,
                                    IssueBodySent(CreatePayload(args, project_key))),
                      "await_primary")
      [] OTHER -> SdkCatch(c, Err("unknown_tool", ToolNameStr(name)))

\* after the last fetch: const data = await response.json(); return content
SdkPrimary(cr, r) ==
    IF ~r.net THEN SdkCatch(cr, Err("fetch_failed", Undef))
    ELSE IF ~r.parsable THEN SdkCatch(cr, Err("json_syntax", Undef))
    ELSE Finish(cr, Result(JsonText(FinalPayload(cr, r.body)), FALSE))

(***************************************************************************)
(* server.ts: app.post('/mcp'), case 'tools/call'.                         *)
(***************************************************************************)
McpCallTool(cr, cfg) ==
    LET args == cr.args
        name == cr.name
        token == OrDefault(args.api_token, DEFAULT_API_TOKEN(cfg))
        c == [cr EXCEPT !.token = token]
    IN
    IF ~Truthy(token) THEN McpCatch(c, Err("token_required", Undef))
    ELSE
    CASE name = "freshrelease_search_user_by_name" ->
            StartSearch(c, DestructureDefault(args.project_key, FBOTS))
      [] name \in {"freshrelease_get_issue", "freshrelease_update_issue",
                   "freshrelease_add_comment", "freshrelease_get_comments"} ->
            LET pk == extractProjectKey(args.issue_key) IN
            IF pk.threw # "" THEN McpCatch(c, Err(pk.threw, args.issue_key))
            ELSE CASE name = "freshrelease_get_issue" ->
                        Send([c EXCEPT !.project = pk.value],
                             IssueRequest("GET", pk.value,
                                          TemplateStr(args.issue_key), token,
                                          NoBodySent),
                             "await_primary")
                   [] name = "freshrelease_update_issue" ->
                        Send([c EXCEPT !.project = pk.value],
                             IssueRequest("PUT", pk.value,
                                          TemplateStr(args.issue_key), token,
                                          IssueBodySent(UpdatePayload(args))),
                             "await_primary")
                   [] OTHER -> StartResolve(c, pk.value)
      [] name = "freshrelease_get_users" ->
            LET project_key == TemplateStr(OrDefault(args.project_key, FBOTS)) IN
            Send([c EXCEPT !.project = project_key],
                 UsersPageRequest(project_key, OrDefault(args.page, Num(1)), token),
                 "await_primary")
      [] name \in {"freshrelease_get_statuses", "freshrelease_get_issue_types"} ->
            LET project_key == TemplateStr(OrDefault(args.project_key, FBOTS)) IN
            Send([c EXCEPT !.project = project_key],
                 CollectionRequest(project_key,
                                   IF name = "freshrelease_get_statuses"
                                   THEN "statuses" ELSE "issue_types",
                                   token),
                 "await_primary")
      [] name = "freshrelease_create_issue" ->
            LET project_key == DestructureDefault(args.project_key, FBOTS) IN
            Send([c EXCEPT !.project = TemplateStr(project_key)],
                 CreateRequest(TemplateStr(project_key), token,
                               IssueBodySent(CreatePayload(args, project_key))),
                 "await_primary")
      [] OTHER -> McpCatch(c, Err("unknown_tool", ToolNameStr(name)))

\* after the last fetch; get_issue tests the status before it reads the body
McpPrimary(cr, r) ==
    IF ~r.net THEN McpCatch(cr, Err("fetch_failed", Undef))
    ELSE IF cr.name = "freshrelease_get_issue" /\ r.status = 404
    THEN Finish(cr, Result(JsonText(IssueNotFoundPayload), FALSE))
    ELSE IF cr.name = "freshrelease_get_issue" /\ r.status >= 400
    THEN Finish(cr, Result(JsonText(UpstreamErrorPayload(r.body)), FALSE))
    ELSE IF ~r.parsable THEN McpCatch(cr, Err("json_syntax", Undef))
    ELSE Finish(cr, Result(JsonText(FinalPayload(cr, r.body)), FALSE))

(***************************************************************************)
(* server.ts: app.post('/tools/call'), the REST route.                     *)
(***************************************************************************)
\* the route from its entry to its first await or its answer
RestCallTool(cr, cfg) ==
    LET args == cr.args
        name == cr.name
        token == OrDefault(args.api_token, DEFAULT_API_TOKEN(cfg))
        c == [cr EXCEPT !.token = token]
        bad(kind) == Finish(c, HttpError(400, Err(kind, Undef)))
    IN
    IF ~Truthy(token) THEN bad("token_required")
    ELSE
    CASE name = "freshrelease_get_users" ->
            LET project_key == TemplateStr(OrDefault(args.project_key, FBOTS)) IN
            Send([c EXCEPT !.project = project_key],
                 UsersPageRequest(project_key, OrDefault(args.page, Num(1)), token),
                 "await_primary")
      [] name = "freshrelease_search_user_by_name" ->
            IF ~Truthy(args.name) THEN bad("name_required")
            ELSE StartSearch(c, DestructureDefault(args.project_key, FBOTS))
      [] name \in {"freshrelease_get_issue", "freshrelease_update_issue",
                   "freshrelease_add_comment", "freshrelease_get_comments"} ->
            IF ~Truthy(args.issue_key) /\ name # "freshrelease_add_comment"
            THEN bad("issue_key_required")
            ELSE IF name = "freshrelease_add_comment"
                    /\ (~Truthy(args.issue_key) \/ ~Truthy(args.content))
            THEN bad("issue_key_and_content_required")
            ELSE LET pk == extractProjectKey(args.issue_key) IN
                 IF pk.threw # "" THEN RestCatch(c, Err(pk.threw, args.issue_key))
                 ELSE CASE name = "freshrelease_get_issue" ->
                            Send([c EXCEPT !.project = pk.value],
                                 IssueRequest("GET", pk.value,
                                              TemplateStr(args.issue_key),
                                              token, NoBodySent),
                                 "await_primary")
                        [] name = "freshrelease_update_issue" ->
                            Send([c EXCEPT !.project = pk.value],
                                 IssueRequest("PUT", pk.value,
                                              TemplateStr(args.issue_key),
                                              token,
                                              IssueBodySent(UpdatePayload(args))),
                                 "await_primary")
                        [] OTHER -> StartResolve(c, pk.value)
      [] name \in {"freshrelease_get_statuses", "freshrelease_get_issue_types"} ->
            LET project_key == TemplateStr(OrDefault(args.project_key, FBOTS)) IN
            Send([c EXCEPT !.project = project_key],
                 CollectionRequest(project_key,
                                   IF name = "freshrelease_get_statuses"
                                   THEN "statuses" ELSE "issue_types",
                                   token),
                 "await_primary")
      [] name = "freshrelease_create_issue" ->
            LET project_key == DestructureDefault(args.project_key, FBOTS) IN
            IF ~Truthy(args.title) THEN bad("title_required")
            ELSE Send([c EXCEPT !.project = TemplateStr(project_key)],
                      CreateRequest(TemplateStr(project_key), token,
                                    IssueBodySent(CreatePayload(args, project_key))),
                      "await_primary")
      [] OTHER -> Finish(c, HttpError(400, Err("unknown_tool", ToolNameStr(name))))

\* after the last fetch: data = await response.json(); res.json({ content })
RestPrimary(cr, r) ==
    IF ~r.net THEN RestCatch(cr, Err("fetch_failed", Undef))
    ELSE IF ~r.parsable THEN RestCatch(cr, Err("json_syntax", Undef))
    ELSE Finish(cr, Result(JsonText(FinalPayload(cr, r.body)), FALSE))

(***************************************************************************)
(* part_001: the session variant, with the current-credential cell.        *)
(***************************************************************************)
\* makeFreshReleaseRequest up to its fetch: const token = apiToken ||
\* API_TOKEN, no caller passes apiToken; if (body) options.body = ...
\* a request helper that fetches with whatever token it has
makeFreshReleaseRequestUnchecked(cr, cell, method, path, body) ==
    LET token == OrDefault(Undef, cell) IN
    Send([cr EXCEPT !.token = token, !.project = path.project],
         Request(method, path, token, body), "await_primary")

makeFreshReleaseRequest(cr, cell, method, path, body) ==
    LET token == OrDefault(Undef, cell) IN
    IF ~Truthy(token) THEN Reject(cr, Err("session_token_required", Undef))
    ELSE Send([cr EXCEPT !.token = token, !.project = path.project],
              Request(method, path, token, body), "await_primary")

\* a set_api_token that answers and keeps the cell as it was
SetApiTokenDropped(cr, cell) ==
    [call |-> Finish(cr, Result(PlainText("token_set"), FALSE)),
     cell |-> cell]

\* case "freshrelease_set_api_token": API_TOKEN = api_token; no request
SetApiToken(cr, cell) ==
    [call |-> Finish(cr, Result(PlainText("token_set"), FALSE)),
     cell |-> cr.args.api_token]

\* the handler from its entry to its first await or its return; cell is the
\* value of API_TOKEN it leaves
SessionCallTool(cr, cell) ==
    LET args == cr.args
        name == cr.name
        same(call) == [call |-> call, cell |-> cell]
    IN
    IF name \notin SessionTools
    THEN same(SessionCatch(cr, Err("unknown_tool", ToolNameStr(name))))
    ELSE IF ~args.present
            /\ name \notin {"freshrelease_get_statuses",
                            "freshrelease_get_issue_types"}
    THEN same(SessionCatch(cr, Err("type_error", Undef)))
    ELSE
    CASE name = "freshrelease_set_api_token" -> SetApiToken(cr, cell)
      [] name = "freshrelease_get_users" ->
            same(makeFreshReleaseRequest(cr, cell, "GET",
                    Path(FBOTS.s, "users", <<>>, "",
                         TemplateStr(OrDefault(args.page, Num(1)))),
                    NoBodySent))
      [] name = "freshrelease_get_statuses" ->
            same(makeFreshReleaseRequest(cr, cell, "GET",
                    Path(FBOTS.s, "statuses", <<>>, "", <<>>), NoBodySent))
      [] name = "freshrelease_get_issue_types" ->
            same(makeFreshReleaseRequest(cr, cell, "GET",
                    Path(FBOTS.s, "issue_types", <<>>, "", <<>>), NoBodySent))
      [] name = "freshrelease_get_issue" ->
            same(makeFreshReleaseRequest(cr, cell, "GET",
                    Path(FBOTS.s, "issues", TemplateStr(args.issue_key), "", <<>>),
                    NoBodySent))
      [] name = "freshrelease_create_issue" ->
            same(makeFreshReleaseRequest(cr, cell, "POST",
                    Path(FBOTS.s, "issues", <<>>, "", <<>>),
                    IssueBodySent(SessionCreatePayload(args))))
      [] name = "freshrelease_update_issue" ->
            same(makeFreshReleaseRequest(cr, cell, "PUT",
                    Path(FBOTS.s, "issues", TemplateStr(args.issue_key), "", <<>>),
                    IssueBodySent(SessionUpdatePayload(args))))
      [] name = "freshrelease_add_comment" ->
            same(makeFreshReleaseRequest(cr, cell, "POST",
                    Path(FBOTS.s, "issues", TemplateStr(args.issue_id),
                         "comments", <<>>),
                    CommentBodySent(args.content)))
      [] OTHER ->
            same(makeFreshReleaseRequest(cr, cell, "GET",
                    Path(FBOTS.s, "issues", TemplateStr(args.issue_id),
                         "comments", <<>>),
                    NoBodySent))

\* makeFreshReleaseRequest after its fetch, and the case's return
SessionPrimary(cr, r) ==
    IF ~r.net THEN SessionCatch(cr, Err("fetch_failed", Undef))
    ELSE IF ~Ok(r) THEN SessionCatch(cr, Err("api_request_failed", Num(r.status)))
    ELSE IF ~r.parsable THEN SessionCatch(cr, Err("json_syntax", Undef))
    ELSE Finish(cr, Result(JsonText(UpstreamPayload(r.body)), FALSE))

(***************************************************************************)
(* part_005: app.post('/mcp'), case 'tools/call'.                          *)
(***************************************************************************)
\* headers carry the process's API_TOKEN; no branch for any other name
Mcp0CallTool(cr, cfg) ==
    LET args == cr.args
        c == [cr EXCEPT !.token = cfg, !.project = FBOTS.s]
    IN
    CASE cr.name = "freshrelease_get_users" ->
            Send(c, UsersPageRequest(FBOTS.s, OrDefault(args.page, Num(1)), cfg),
                 "await_primary")
      [] cr.name = "freshrelease_get_issue" ->
            Send(c, IssueRequest("GET", FBOTS.s, TemplateStr(args.issue_key), cfg,
                                 NoBodySent),
                 "await_primary")
      [] OTHER -> Finish(c, ResultUndefinedContent)

Mcp0Primary(cr, r) ==
    IF ~r.net THEN Mcp0Catch(cr, Err("fetch_failed", Undef))
    ELSE IF ~r.parsable THEN Mcp0Catch(cr, Err("json_syntax", Undef))
    ELSE Finish(cr, Result(JsonText(UpstreamPayload(r.body)), FALSE))

\* after its last fetch the handler awaits the body of r: index.ts,
\* /tools/call and part_005 always; part_001 when response.ok; /mcp always
\* except for a 404 of get_issue
PrimaryReadsBody(cr, r) ==
    /\ r.net
    /\ cr.disp = "session" => Ok(r)
    /\ cr.disp = "mcp" /\ cr.name = "freshrelease_get_issue" => r.status # 404

\* the code after the last fetch of an invocation
Primary(cr, r) ==
    CASE cr.disp = "sdk" -> SdkPrimary(cr, r)
      [] cr.disp = "mcp" -> McpPrimary(cr, r)
      [] cr.disp = "session" -> SessionPrimary(cr, r)
      [] cr.disp = "rest" -> RestPrimary(cr, r)
      [] OTHER -> Mcp0Primary(cr, r)

(***************************************************************************)
(* Inputs: credentials, arguments, upstream users listings.                *)
(***************************************************************************)
Tokens == {Str(<<"tok", Digits[i + 1]>>) : i \in 1..NumTokens}
EnvToken == Str(<<"envtok">>)
TokenChoices == {Undef} \cup Tokens
\* the payload-heavy tools vary the credential less
FewTokens == {Undef, Str(<<"tok", Digits[2]>>)}

UBo == User(Num(1), Str(<<"B", "o">>), Str(<<"b", "@">>))
UNo == User(Num(3), Undef, Str(<<"n", "o", "@">>))
UOna == User(Num(4), Str(<<"O", "n", "a">>), Undef)
UAn == User(Num(2), Str(<<"A", "n">>), Str(<<"a", "@">>))
PageA == <<UBo, UNo>>
PageB == <<UOna, UAn>>

\* upstream users listings, page by page; a page past the end is empty
ShortListings == {<<>>, <<PageA>>, <<PageA, PageB>>, <<PageB, PageA>>}
\* maxPages pages and one more: the ceiling ends the pagination
LongListings ==
    {[i \in 1..(maxPages + 1) |-> IF i = maxPages + 1 THEN PageB ELSE PageA],
     [i \in 1..(maxPages + 1) |-> IF i = maxPages THEN PageB ELSE PageA]}
Listings == ShortListings \cup LongListings
PageOf(listing, page) == IF page <= Len(listing) THEN listing[page] ELSE <<>>

SearchNames ==
    {Undef, Str(<<>>), Str(<<"a", "n">>), Str(<<"N">>), Str(<<"z">>)}
ProjectKeys == {Undef, Str(<<>>), Str(<<"A", "B">>)}
IssueKeys ==
    {Undef, Str(<<>>), Str(<<"F", "1">>), Str(<<"F", "-", "1">>),
     Str(<<"A", "B", "-", "2", "-", "3">>)}
Titles == {Undef, Str(<<>>), Str(<<"t">>)}
Descriptions == {Undef, Str(<<"d">>)}
Contents == {Undef, Str(<<>>), Str(<<"h", "i">>)}
TypeIds == {Undef, Str(<<"7">>), Str(<<"x">>)}
StatusIds == {Undef, Num(3)}
OwnerIds == {Undef, Str(<<"1", "2">>)}
PriorityIds == {Undef, Str(<<>>), Str(<<"4">>)}

WithTokens(A, T) == {[a EXCEPT !.api_token = t] : a \in A, t \in T}

\* every name under the default project, every project key under one name
SearchArgs ==
    {[EmptyArgs EXCEPT !.name = n] : n \in SearchNames}
SearchProjectArgs ==
    {[EmptyArgs EXCEPT !.name = Str(<<"a", "n">>), !.project_key = p] :
        p \in ProjectKeys}
KeyArgs == {[EmptyArgs EXCEPT !.issue_key = k] : k \in IssueKeys}
CollectionArgs ==
    {[EmptyArgs EXCEPT !.project_key = p, !.page = g] :
        p \in ProjectKeys, g \in {Undef, Num(2)}}
CreateArgs ==
    {[EmptyArgs EXCEPT !.title = t, !.description = d, !.issue_type_id = y,
                       !.owner_id = o, !.status_id = st, !.priority_id = pr,
                       !.project_key = p] :
        t \in Titles \ {Str(<<>>)}, d \in Descriptions, y \in TypeIds, o \in OwnerIds,
        st \in StatusIds, pr \in PriorityIds \ {Str(<<>>)},
        p \in {Undef, Str(<<"A", "B">>)}}
UpdateArgs ==
    {[EmptyArgs EXCEPT !.issue_key = k, !.title = t, !.description = d,
                       !.issue_type_id = y, !.status_id = st, !.owner_id = o,
                       !.priority_id = pr] :
        k \in {Undef, Str(<<"F", "1">>), Str(<<"F", "-", "1">>)},
        t \in Titles, d \in Descriptions, y \in TypeIds, st \in StatusIds,
        o \in OwnerIds, pr \in PriorityIds}
CommentArgs ==
    {[EmptyArgs EXCEPT !.issue_key = k, !.content = ct, !.issue_id = i] :
        k \in IssueKeys \ {Str(<<>>)}, ct \in Contents, i \in {Undef, Num(1)}}

\* the argument objects tried for a tool
ArgsOf(name) ==
    {NoArgs} \cup
    CASE name = "freshrelease_search_user_by_name" ->
            WithTokens(SearchArgs, FewTokens)
                \cup WithTokens(SearchProjectArgs, TokenChoices)
      [] name = "freshrelease_get_issue" -> WithTokens(KeyArgs, TokenChoices)
      [] name \in {"freshrelease_get_statuses", "freshrelease_get_issue_types",
                   "freshrelease_get_users"} ->
            WithTokens(CollectionArgs, TokenChoices)
      [] name = "freshrelease_create_issue" -> WithTokens(CreateArgs, FewTokens)
      [] name = "freshrelease_update_issue" -> WithTokens(UpdateArgs, FewTokens)
      [] name \in {"freshrelease_add_comment", "freshrelease_get_comments"} ->
            WithTokens(CommentArgs, TokenChoices)
      [] name = "freshrelease_set_api_token" ->
            WithTokens({EmptyArgs}, TokenChoices)
      [] OTHER -> WithTokens({EmptyArgs}, TokenChoices)

Input(disp, name, args, listing) ==
    [disp |-> disp, name |-> name, args |-> args, listing |-> listing]

\* part_001 alone reads custom_fields
SessionExtraArgs ==
    {[a EXCEPT !.custom_fields = Obj] :
        a \in {u \in UpdateArgs : u.issue_key = Str(<<"F", "-", "1">>)}}

\* every dispatcher with every tool name; the listing matters to the search
RichInputs ==
    UNION {{Input(d, n, a, <<>>) : a \in ArgsOf(n)} :
                d \in Dispatchers,
                n \in ToolNames \ {"freshrelease_search_user_by_name"}}
    \cup {Input(d, "freshrelease_search_user_by_name", a, l) :
            d \in {"sdk", "mcp"},
            a \in ArgsOf("freshrelease_search_user_by_name"),
            l \in Listings}
    \cup {Input(d, "freshrelease_search_user_by_name", a, <<>>) :
            d \in {"session", "mcp0"},
            a \in WithTokens({EmptyArgs}, TokenChoices)}
    \cup {Input("session", "freshrelease_update_issue", a, <<>>) :
            a \in SessionExtraArgs}

\* two invocations at a time: the tools with one and with several fetches,
\* on two issue keys, under every credential
ConcArgs ==
    WithTokens({[EmptyArgs EXCEPT !.issue_key = k, !.content = Str(<<"h", "i">>),
                                  !.name = Str(<<"a", "n">>)] :
                    k \in {Str(<<"F", "-", "1">>),
                           Str(<<"A", "B", "-", "2", "-", "3">>)}},
               TokenChoices)
ConcInputs ==
    {Input(d, n, a, <<>>) :
        d \in {"sdk", "mcp"},
        n \in {"freshrelease_add_comment", "freshrelease_get_comments",
               "freshrelease_search_user_by_name"},
        a \in ConcArgs}

(***************************************************************************)
(* What the upstream may answer to the fetch an invocation waits for.      *)
(***************************************************************************)
\* a users page: the listing's page, a body without users, a failure
PageResponses(cr) ==
    {NetFail,
     Response(TRUE, 500, TRUE, ErrBody),
     Response(TRUE, 200, FALSE, RawBody),
     Response(TRUE, 200, TRUE, ListBody),
     Response(TRUE, 200, TRUE, UsersBody(PageOf(cr.listing, cr.page)))}

\* the issue lookup: an issue with an id (0 for none), an error object
ResolveResponses ==
    {NetFail}
    \cup {Response(TRUE, st, FALSE, RawBody) : st \in Statuses}
    \cup {Response(TRUE, st, TRUE, b) :
            st \in Statuses,
            b \in {IssueBody(Num(i)) : i \in 0..MaxIssueId} \cup {ErrBody}}

PrimaryResponses ==
    {NetFail}
    \cup {Response(TRUE, st, FALSE, RawBody) : st \in Statuses}
    \cup {Response(TRUE, st, TRUE, b) :
            st \in Statuses, b \in {IssueBody(Num(1)), ErrBody}}

\* the answers tried when two invocations interleave
FewResolveResponses ==
    {NetFail, Response(TRUE, 404, TRUE, ErrBody)}
    \cup {Response(TRUE, 200, TRUE, IssueBody(Num(i))) : i \in 1..MaxIssueId}
FewPrimaryResponses ==
    {Response(TRUE, 200, TRUE, ListBody), Response(TRUE, 500, TRUE, ErrBody)}

(***************************************************************************)
(* Actions.                                                                *)
(***************************************************************************)
Slots == {"c1", "c2"}

Init ==
    /\ calls = [c \in Slots |-> IdleCall]
    /\ config \in {Undef, EnvToken}
    /\ API_TOKEN = DEFAULT_API_TOKEN(config)

\* index.ts: a tools/call request reaches the SDK handler
SdkCall(c, inputs) ==
    /\ calls[c].pc = "idle"
    /\ \E inp \in inputs :
        /\ inp.disp = "sdk"
        /\ calls' = [calls EXCEPT ![c] =
                SdkCallTool(Begin("sdk", inp.name, inp.args, inp.listing), config)]
    /\ UNCHANGED <<config, API_TOKEN>>

\* server.ts: a tools/call request reaches app.post('/mcp')
McpCall(c, inputs) ==
    /\ calls[c].pc = "idle"
    /\ \E inp \in inputs :
        /\ inp.disp = "mcp"
        /\ calls' = [calls EXCEPT ![c] =
                McpCallTool(Begin("mcp", inp.name, inp.args, inp.listing), config)]
    /\ UNCHANGED <<config, API_TOKEN>>

\* part_001: a tools/call request reaches the handler; set_api_token writes
\* the cell
SessionCall(c, inputs) ==
    /\ calls[c].pc = "idle"
    /\ \E inp \in inputs :
        /\ inp.disp = "session"
        /\ LET res == SessionCallTool(
                        Begin("session", inp.name, inp.args, inp.listing),
                        API_TOKEN)
           IN  /\ calls' = [calls EXCEPT ![c] = res.call]
               /\ API_TOKEN' = res.cell
    /\ UNCHANGED config

\* part_005: the process exits at start without FRESHRELEASE_API_TOKEN
Mcp0Call(c, inputs) ==
    /\ calls[c].pc = "idle"
    /\ Truthy(config)
    /\ \E inp \in inputs :
        /\ inp.disp = "mcp0"
        /\ calls' = [calls EXCEPT ![c] =
                Mcp0CallTool(Begin("mcp0", inp.name, inp.args, inp.listing), config)]
    /\ UNCHANGED <<config, API_TOKEN>>

\* tools/list: the handler returns its registry; no credential is read
ListTools(c, disps) ==
    /\ calls[c].pc = "idle"
    /\ \E d \in disps :
        /\ d = "mcp0" => Truthy(config)
        /\ calls' = [calls EXCEPT ![c] =
                [IdleCall EXCEPT !.pc = "listed", !.disp = d,
                                 !.name = "tools/list",
                                 !.outcome = ToolsResult(ToolsList(d))]]
    /\ UNCHANGED <<config, API_TOKEN>>

\* searchUserByName: the fetch of a users page settles; with response.ok
\* the loop goes on to await response.json(), otherwise it ends here
PageResponse(c) ==
    /\ calls[c].pc = "await_page"
    /\ \E r \in PageResponses(calls[c]) :
        calls' = [calls EXCEPT ![c] =
                    IF r.net /\ Ok(r) THEN Suspend(calls[c], r, "read_page")
                    ELSE SearchPage(Receive(calls[c], r), r)]
    /\ UNCHANGED <<config, API_TOKEN>>

\* searchUserByName: await response.json() settles; the rest of the pass
\* and the next pass up to its fetch
PageBody(c) ==
    /\ calls[c].pc = "read_page"
    /\ calls' = [calls EXCEPT ![c] =
                    SearchPage(Resume(calls[c]), calls[c].response)]
    /\ UNCHANGED <<config, API_TOKEN>>

\* getIssueIdFromKey: the fetch of the issue lookup settles; with
\* response.ok it goes on to await response.json(), otherwise it throws
ResolveResponse(c, responses) ==
    /\ calls[c].pc = "await_resolve"
    /\ \E r \in responses :
        calls' = [calls EXCEPT ![c] =
                    IF r.net /\ Ok(r) THEN Suspend(calls[c], r, "read_resolve")
                    ELSE ResolveIssueId(Receive(calls[c], r), r)]
    /\ UNCHANGED <<config, API_TOKEN>>

\* getIssueIdFromKey: await response.json() settles; the id is taken and
\* the caller goes on to its own fetch
ResolveBody(c) ==
    /\ calls[c].pc = "read_resolve"
    /\ calls' = [calls EXCEPT ![c] =
                    ResolveIssueId(Resume(calls[c]), calls[c].response)]
    /\ UNCHANGED <<config, API_TOKEN>>

\* the last fetch of an invocation settles
PrimaryResponse(c, responses) ==
    /\ calls[c].pc = "await_primary"
    /\ \E r \in responses :
        calls' = [calls EXCEPT ![c] =
                    IF PrimaryReadsBody(calls[c], r)
                    THEN Suspend(calls[c], r, "read_primary")
                    ELSE Primary(Receive(calls[c], r), r)]
    /\ UNCHANGED <<config, API_TOKEN>>

\* await response.json() (or .text()) of the last fetch settles
PrimaryBody(c) ==
    /\ calls[c].pc = "read_primary"
    /\ calls' = [calls EXCEPT ![c] =
                    Primary(Resume(calls[c]), calls[c].response)]
    /\ UNCHANGED <<config, API_TOKEN>>

\* part_001: await makeFreshReleaseRequest(...) settles with the error the
\* helper threw; the handler's catch returns it
Rejected(c) ==
    /\ calls[c].pc = "await_rejected"
    /\ calls' = [calls EXCEPT ![c] =
                    Catch([calls[c] EXCEPT !.thrown = NoError], calls[c].thrown)]
    /\ UNCHANGED <<config, API_TOKEN>>

\* the transport has taken the outcome; the slot serves the next request
Return(c) ==
    /\ calls[c].pc \in {"done", "listed"}
    /\ calls' = [calls EXCEPT ![c] = IdleCall]
    /\ UNCHANGED <<config, API_TOKEN>>

\* one invocation at a time, every input and every upstream answer
Next ==
    \/ SdkCall("c1", RichInputs)
    \/ McpCall("c1", RichInputs)
    \/ SessionCall("c1", RichInputs)
    \/ Mcp0Call("c1", RichInputs)
    \/ ListTools("c1", Dispatchers)
    \/ PageResponse("c1")
    \/ PageBody("c1")
    \/ ResolveResponse("c1", ResolveResponses)
    \/ ResolveBody("c1")
    \/ PrimaryResponse("c1", PrimaryResponses)
    \/ PrimaryBody("c1")
    \/ Rejected("c1")
    \/ Return("c1")

Spec == Init /\ [][Next]_vars

\* two invocations whose steps interleave
NextConc ==
    \E c \in Slots :
        \/ SdkCall(c, ConcInputs)
        \/ McpCall(c, ConcInputs)
        \/ ListTools(c, {"sdk", "mcp"})
        \/ PageResponse(c)
        \/ PageBody(c)
        \/ ResolveResponse(c, FewResolveResponses)
        \/ ResolveBody(c)
        \/ PrimaryResponse(c, FewPrimaryResponses)
        \/ PrimaryBody(c)
        \/ Return(c)

SpecConc == Init /\ [][NextConc]_vars

\* part_001 with two invocations of its one session in flight: two
\* requests read from stdin before the first has been answered
SessionTokens == {Str(<<"tok", "1">>), Str(<<"tok", "2">>)}
SessionInputs ==
    {Input("session", "freshrelease_set_api_token",
           [EmptyArgs EXCEPT !.api_token = tk], <<>>) : tk \in SessionTokens}
    \cup {Input("session", "freshrelease_get_users",
                [EmptyArgs EXCEPT !.page = g], <<>>) : g \in {Undef, Num(2)}}
    \cup {Input("session", "freshrelease_get_issue",
                [EmptyArgs EXCEPT !.issue_key = Str(<<"F", "-", "1">>)], <<>>)}

\* the handler's steps of the two invocations interleave at its awaits; both
\* read and write the one cell API_TOKEN of the process
NextSession ==
    \E c \in Slots :
        \/ SessionCall(c, SessionInputs)
        \/ PrimaryResponse(c, FewPrimaryResponses)
        \/ PrimaryBody(c)
        \/ Rejected(c)
        \/ Return(c)

SpecSession == Init /\ [][NextSession]_vars

\* the search alone, its page fetches always answered in the end
SearchInputs ==
    {inp \in RichInputs :
        /\ inp.name = "freshrelease_search_user_by_name"
        /\ inp.disp \in {"sdk", "mcp"}}

NextSearch ==
    \/ SdkCall("c1", SearchInputs)
    \/ McpCall("c1", SearchInputs)
    \/ PageResponse("c1")
    \/ PageBody("c1")
    \/ Return("c1")

\* a fetch settles: it is answered or it is rejected; so does the reading
\* of a body
SpecSearch ==
    /\ Init /\ [][NextSearch]_vars
    /\ WF_vars(PageResponse("c1") \/ PageBody("c1"))

(***************************************************************************)
(* The three dispatchers of index.ts and server.ts side by side.           *)
(***************************************************************************)
\* server.ts: a request reaches app.post('/tools/call')
RestCall(c, inputs) ==
    /\ calls[c].pc = "idle"
    /\ \E inp \in inputs :
        /\ inp.disp = "rest"
        /\ calls' = [calls EXCEPT ![c] =
                RestCallTool(Begin("rest", inp.name, inp.args, inp.listing), config)]
    /\ UNCHANGED <<config, API_TOKEN>>

PairDispatchers == {"sdk", "rest", "mcp"}

\* the tool names and arguments objects given to the dispatchers
PairRequests ==
    {inp \in RichInputs :
        /\ inp.disp = "mcp" /\ inp.name \in McpTools /\ inp.args.present
        /\ inp.listing \in ShortListings}

\* what slot c may be given: any request while the other slot is free, and
\* otherwise the other slot's request, for another dispatcher
PairInputs(c) ==
    LET o == CHOOSE d \in Slots : d # c IN
    IF calls[o].pc = "idle"
    THEN {Input(d, inp.name, inp.args, inp.listing) :
            d \in PairDispatchers, inp \in PairRequests}
    ELSE {Input(d, calls[o].name, calls[o].args, calls[o].listing) :
            d \in PairDispatchers \ {calls[o].disp}}

\* one request given to two dispatchers, each answered on its own
NextPair ==
    \E c \in Slots :
        \/ SdkCall(c, PairInputs(c))
        \/ RestCall(c, PairInputs(c))
        \/ McpCall(c, PairInputs(c))
        \/ PageResponse(c)
        \/ PageBody(c)
        \/ ResolveResponse(c, FewResolveResponses)
        \/ ResolveBody(c)
        \/ PrimaryResponse(c, FewPrimaryResponses)
        \/ PrimaryBody(c)
        \/ Return(c)

SpecPair == Init /\ [][NextPair]_vars

(***************************************************************************)
(* Properties.                                                             *)
(***************************************************************************)
Done(c) == calls[c].pc = "done"

\* { content: [{ type: "text", text: <an error message> }], isError: true }
IsErrorOutcome(o) ==
    /\ o.kind = "result"
    /\ o.isError
    /\ o.hasContent
    /\ Len(o.content) = 1
    /\ o.content[1].type = "text"
    /\ o.content[1].text.form = "error"

\* the error message of an error outcome
ErrorOf(o) == o.content[1].text.err

\* a fetch of the invocation was rejected (network failure)
NetworkFailed(cr) == \E i \in 1..Len(cr.got) : ~cr.got[i].net

\* the dispatcher has no case for the tool name
UnknownTool(cr) == cr.name \notin HandledBy(cr.disp)

\* an issue key with a project part: a string with a '-'
WellFormedKey(v) == v.t = "string" /\ SplitParts(v.s) >= 2

\* C1: every error raised while an invocation is handled is caught at the
\* dispatcher boundary and becomes an outcome with isError = true and one
\* text item; no exception leaves the tool-call handler (index.ts, part_001).
C1_ErrorsCaughtAtBoundary ==
    \A c \in Slots :
        Done(c) /\ calls[c].disp \in {"sdk", "session"} =>
            /\ calls[c].outcome.kind = "result"
            /\ (NetworkFailed(calls[c]) \/ UnknownTool(calls[c]))
                    => IsErrorOutcome(calls[c].outcome)

\* the invocation failed: no case for the name, a rejected fetch, or a
\* non-2xx answer to the fetch of a tool other than the search (whose loop
\* ends on one) and get_issue's 404
Failed(cr) ==
    \/ UnknownTool(cr)
    \/ NetworkFailed(cr)
    \/ /\ cr.name # "freshrelease_search_user_by_name"
       /\ \E i \in 1..Len(cr.got) :
            /\ cr.got[i].net
            /\ ~Ok(cr.got[i])
            /\ ~(cr.name = "freshrelease_get_issue" /\ cr.got[i].status = 404)

\* C2: every outcome a tool call returns has at least one text content
\* item, and has isError = true when the invocation failed.
C2_OutcomeWellFormed ==
    \A c \in Slots :
        Done(c) /\ calls[c].outcome.kind = "result" =>
            /\ calls[c].outcome.hasContent
            /\ Len(calls[c].outcome.content) >= 1
            /\ \A i \in 1..Len(calls[c].outcome.content) :
                    calls[c].outcome.content[i].type = "text"
            /\ Failed(calls[c]) => calls[c].outcome.isError

\* C3: get_issue with a well-formed key whose GET is answered 404 returns
\* the payload { error: "Issue not found" } with isError not set, not the
\* upstream body and not an error outcome (index.ts, server.ts /mcp).
C3_GetIssue404NotError ==
    \A c \in Slots :
        ( /\ Done(c)
          /\ calls[c].disp \in {"sdk", "mcp"}
          /\ calls[c].name = "freshrelease_get_issue"
          /\ WellFormedKey(calls[c].args.issue_key)
          /\ Len(calls[c].got) = 1
          /\ calls[c].got[1].net
          /\ calls[c].got[1].status = 404 )
        => calls[c].outcome = Result(JsonText(IssueNotFoundPayload), FALSE)

\* C4: get_issue with an issue key that has no '-' returns an error outcome
\* with the invalid-key-format message and issues no upstream request
\* (index.ts, server.ts /mcp).
C4_MalformedKeyRejected ==
    \A c \in Slots :
        ( /\ Done(c)
          /\ calls[c].disp \in {"sdk", "mcp"}
          /\ calls[c].name = "freshrelease_get_issue"
          /\ Truthy(calls[c].args.issue_key)
          /\ ~WellFormedKey(calls[c].args.issue_key) )
        => /\ IsErrorOutcome(calls[c].outcome)
           /\ ErrorOf(calls[c].outcome) =
                Err("invalid_issue_key", calls[c].args.issue_key)
           /\ calls[c].sent = <<>>

\* C5: a tool name the dispatcher has no case for returns an error outcome
\* whose message names the tool, whatever the arguments and the credential
\* state, and issues no upstream request (index.ts, part_001).
C5_UnknownToolNamed ==
    \A c \in Slots :
        ( /\ Done(c)
          /\ calls[c].disp \in {"sdk", "session"}
          /\ UnknownTool(calls[c]) )
        => /\ IsErrorOutcome(calls[c].outcome)
           /\ ErrorOf(calls[c].outcome) =
                Err("unknown_tool", ToolNameStr(calls[c].name))
           /\ calls[c].sent = <<>>

OptionalUpdateArgs ==
    {"title", "description", "issue_type_id", "status_id", "owner_id",
     "priority_id"}
SuppliedTruthy(args) == {g \in OptionalUpdateArgs : Truthy(args[g])}

\* the key and the text fields of a PUT body are those of the arguments
UpdateBodyValues(cr, issue) ==
    /\ "key" \in DOMAIN issue => issue["key"] = cr.args.issue_key
    /\ cr.args.issue_key.t # "undefined" => "key" \in DOMAIN issue
    /\ \A f \in {"title", "description"} \cap DOMAIN issue :
            issue[f] = cr.args[f]

\* the field part_001 adds to the body for its custom_fields argument
CustomField(cr) ==
    IF cr.disp = "session" /\ Truthy(cr.args.custom_fields)
    THEN {"custom_field"} ELSE {}

\* C6 as stated: the fields of a PUT body besides key are exactly the six
\* optional arguments supplied with a truthy value.
C6_BodyExactlySixOptionals ==
    \A c \in Slots :
        \A i \in 1..Len(calls[c].sent) :
            calls[c].sent[i].method = "PUT" =>
                /\ calls[c].sent[i].body.kind = "issue"
                /\ DOMAIN calls[c].sent[i].body.issue \ {"key"}
                        = SuppliedTruthy(calls[c].args)
                /\ UpdateBodyValues(calls[c], calls[c].sent[i].body.issue)

\* C6 amended: the fields of a PUT body besides key are exactly the optional
\* arguments supplied with a truthy value: the six, and in part_001 also
\* custom_fields, sent as custom_field; an absent or falsy one is not in
\* the body.
C6_BodyExactlySuppliedOptionals ==
    \A c \in Slots :
        \A i \in 1..Len(calls[c].sent) :
            calls[c].sent[i].method = "PUT" =>
                /\ calls[c].sent[i].body.kind = "issue"
                /\ DOMAIN calls[c].sent[i].body.issue \ {"key"}
                        = SuppliedTruthy(calls[c].args) \cup CustomField(calls[c])
                /\ UpdateBodyValues(calls[c], calls[c].sent[i].body.issue)

\* a PUT whose body is { issue: { key, title } } although priority_id was
\* supplied (as the empty string)
C6_Witness ==
    \E c \in Slots :
        /\ calls[c].name = "freshrelease_update_issue"
        /\ Len(calls[c].sent) = 1
        /\ calls[c].sent[1].method = "PUT"
        /\ calls[c].args.priority_id = Str(<<>>)
        /\ DOMAIN calls[c].sent[1].body.issue = {"key", "title"}

\* the dispatchers whose add_comment takes an issue key and resolves it
KeyResolving == {"sdk", "mcp"}

\* C7: add_comment(issue_key, content): the POST on
\* /{project}/issues/{id}/comments with body { content } is the second
\* request, issued after the GET on /{project}/issues/{issue_key} was
\* answered, with the id of that answer; a successful invocation has issued
\* exactly these two and returns issue_key, the id and the comment payload.
C7_AddCommentTwoCallsInOrder ==
    \A c \in Slots :
        calls[c].name = "freshrelease_add_comment"
            /\ calls[c].disp \in KeyResolving =>
        LET cr == calls[c]
            project == extractProjectKey(cr.args.issue_key).value
        IN
        /\ \A i \in 1..Len(cr.sent) :
              cr.sent[i].method = "POST" =>
                /\ i = 2
                /\ Len(cr.got) >= 1
                /\ cr.got[1].net /\ Ok(cr.got[1]) /\ cr.got[1].parsable
                /\ cr.sent[1] =
                     IssueRequest("GET", project, cr.args.issue_key.s, cr.token,
                                  NoBodySent)
                /\ cr.sent[2] =
                     CommentsRequest("POST", project,
                                     TemplateStr(IssueIdOf(cr.got[1].body)),
                                     cr.token, CommentBodySent(cr.args.content))
        /\ (cr.pc = "done" /\ cr.outcome.kind = "result" /\ ~cr.outcome.isError) =>
                /\ Len(cr.sent) = 2
                /\ cr.sent[1].method = "GET"
                /\ cr.sent[2].method = "POST"
                /\ Len(cr.got) = 2
                /\ cr.outcome.content =
                     <<TextItem(JsonText(
                         CommentAddedPayload(cr.args.issue_key,
                                             IssueIdOf(cr.got[1].body),
                                             cr.got[2].body)))>>

\* a successful add_comment
C7_Witness ==
    \E c \in Slots :
        /\ Done(c)
        /\ calls[c].disp = "sdk"
        /\ calls[c].name = "freshrelease_add_comment"
        /\ calls[c].outcome.kind = "result"
        /\ ~calls[c].outcome.isError
        /\ Len(calls[c].sent) = 2
        /\ calls[c].issue_id = Num(2)

\* the upstream answered every users request with the listing's page
ServedListing(cr) ==
    \A i \in 1..Len(cr.got) :
        cr.got[i] = Response(TRUE, 200, TRUE, UsersBody(PageOf(cr.listing, i)))

\* the users of pages 1..k, in order
RECURSIVE UsersUpTo(_, _)
UsersUpTo(listing, k) ==
    IF k = 0 THEN <<>> ELSE UsersUpTo(listing, k - 1) \o PageOf(listing, k)

\* u is the first user of us whose name or email contains the name
FirstMatch(us, u, searchName) ==
    \E i \in 1..Len(us) :
        /\ us[i] = u
        /\ UserMatches(u, toLowerCase(searchName.s)).value
        /\ \A j \in 1..(i - 1) :
                ~UserMatches(us[j], toLowerCase(searchName.s)).value

\* a finished search over pages 1..k non-empty and page k+1 empty, under the
\* ceiling, with a match on pages 1..k
SearchOverK(cr, k) ==
    /\ cr.pc = "done"
    /\ cr.name = "freshrelease_search_user_by_name"
    /\ cr.disp \in KeyResolving
    /\ cr.args.name.t = "string"
    /\ k = Len(cr.listing) /\ k >= 1 /\ k < maxPages
    /\ \A i \in 1..k : Len(cr.listing[i]) > 0
    /\ Len(cr.got) >= 1
    /\ ServedListing(cr)
    /\ \E u \in {PageOf(cr.listing, i)[j] : i \in 1..k, j \in 1..2} :
            FirstMatch(UsersUpTo(cr.listing, k), u, cr.args.name)

FoundFirstMatch(cr, k) ==
    \E u \in {PageOf(cr.listing, i)[j] : i \in 1..k, j \in 1..2} :
        /\ FirstMatch(UsersUpTo(cr.listing, k), u, cr.args.name)
        /\ cr.outcome = Result(JsonText(FoundPayload(u)), FALSE)

\* C8 as stated: the search requests pages 1..k and no more, and returns
\* the first match in page order.
C8_RequestsPagesOneToK ==
    \A c \in Slots : \A k \in 1..(maxPages - 1) :
        SearchOverK(calls[c], k) =>
            /\ Len(calls[c].sent) = k
            /\ FoundFirstMatch(calls[c], k)

\* C8 amended: the search requests pages 1..k+1 in order, the empty page
\* k+1 being the one that ends it, never page k+2, and returns the
\* first match in page order.
C8_RequestsThroughEmptyPage ==
    \A c \in Slots : \A k \in 1..(maxPages - 1) :
        SearchOverK(calls[c], k) =>
            /\ Len(calls[c].sent) = k + 1
            /\ \A i \in 1..(k + 1) :
                    calls[c].sent[i] =
                        UsersPageRequest(calls[c].project, Num(i), calls[c].token)
            /\ FoundFirstMatch(calls[c], k)

\* page sizes 2, 2, 0 and a match on page 2: three requests
C8_Witness ==
    \E c \in Slots :
        /\ SearchOverK(calls[c], 2)
        /\ calls[c].listing = <<PageA, PageB>>
        /\ calls[c].args.name = Str(<<"a", "n">>)
        /\ Len(calls[c].sent) = 3
        /\ calls[c].outcome = Result(JsonText(FoundPayload(UAn)), FALSE)

\* the pagination of a finished search ended without an exception: by an
\* empty page, a status that is not ok, or the ceiling
PaginationEnded(cr) ==
    /\ cr.pc = "done"
    /\ cr.name = "freshrelease_search_user_by_name"
    /\ cr.disp \in KeyResolving
    /\ cr.args.name.t = "string"
    /\ Len(cr.got) >= 1
    /\ \A i \in 1..Len(cr.got) :
            cr.got[i].net /\ (Ok(cr.got[i]) => cr.got[i].parsable)

\* no user of a fetched page has the name in its name or email
NoFetchedMatch(cr) ==
    \A i \in 1..Len(cr.got) :
        Ok(cr.got[i]) =>
            \A j \in 1..Len(UsersOf(cr.got[i].body)) :
                ~UserMatches(UsersOf(cr.got[i].body)[j],
                             toLowerCase(cr.args.name.s)).value

\* C9: a search whose pagination ended, by an empty page or by the ceiling
\* of maxPages pages, without a match on a fetched page returns
\* { found: false, searched_name: <the name as given> } and is no error.
C9_NoMatchIsNotError ==
    \A c \in Slots :
        PaginationEnded(calls[c]) /\ NoFetchedMatch(calls[c]) =>
            calls[c].outcome =
                Result(JsonText([kind |-> "search", found |-> FALSE,
                                 searched_name |-> calls[c].args.name]),
                       FALSE)

\* the ceiling ended the pagination: maxPages pages fetched, none empty
C9_Witness ==
    \E c \in Slots :
        /\ PaginationEnded(calls[c])
        /\ NoFetchedMatch(calls[c])
        /\ Len(calls[c].sent) = maxPages
        /\ Len(calls[c].allUsers) = 2 * maxPages
        /\ calls[c].args.name = Str(<<"a", "n">>)
        /\ ~calls[c].outcome.isError

\* C10: when two invocations in flight carry different api_token arguments,
\* every upstream request of each has the Authorization of its own
\* invocation's api_token.
C10_OwnCredentialPerInvocation ==
    \A c \in Slots : \A d \in Slots \ {c} :
        /\ calls[c].pc # "idle" /\ calls[d].pc # "idle"
        /\ Truthy(calls[c].args.api_token)
        /\ Truthy(calls[d].args.api_token)
        /\ calls[c].args.api_token # calls[d].args.api_token
        => \A i \in 1..Len(calls[c].sent) :
                calls[c].sent[i].auth
                    = <<"Token ">> \o calls[c].args.api_token.s

\* two invocations with different credentials, the second request of one
\* issued while the other awaits its answer
C10_Witness ==
    /\ calls["c1"].pc = "await_primary"
    /\ calls["c2"].pc = "await_resolve"
    /\ Len(calls["c1"].sent) = 2
    /\ Len(calls["c2"].sent) = 1
    /\ Truthy(calls["c1"].args.api_token)
    /\ Truthy(calls["c2"].args.api_token)
    /\ calls["c1"].args.api_token # calls["c2"].args.api_token
    /\ calls["c1"].sent[2].auth # calls["c2"].sent[1].auth
    /\ config = EnvToken

\* the arguments a tool requires
RequiredArgs(name) ==
    CASE name = "freshrelease_search_user_by_name" -> {"name"}
      [] name \in {"freshrelease_get_issue", "freshrelease_update_issue",
                   "freshrelease_get_comments"} -> {"issue_key"}
      [] name = "freshrelease_add_comment" -> {"issue_key", "content"}
      [] name = "freshrelease_create_issue" -> {"title"}
      [] name = "freshrelease_set_api_token" -> {"api_token"}
      [] OTHER -> {}

\* the error messages that name an argument as required
RequiredErrors(a) ==
    CASE a = "name" -> {"name_required"}
      [] a = "issue_key" -> {"issue_key_required", "issue_key_and_content_required"}
      [] a = "content" -> {"issue_key_and_content_required"}
      [] a = "title" -> {"title_required"}
      [] OTHER -> {a \o "_required"}

\* C12: an invocation of a tool the dispatcher handles in which a required
\* argument is missing or empty ends with an error outcome (isError true)
\* whose message names a missing argument; it is neither thrown past the
\* dispatcher nor reported as success (index.ts, server.ts /mcp, part_001).
C12_MissingArgumentIsError ==
    \A c \in Slots :
        ( /\ Done(c)
          /\ calls[c].disp \in {"sdk", "mcp", "session"}
          /\ calls[c].name \in HandledBy(calls[c].disp)
          /\ \E a \in RequiredArgs(calls[c].name) : ~Truthy(calls[c].args[a]) )
        => /\ IsErrorOutcome(calls[c].outcome)
           /\ \E a \in RequiredArgs(calls[c].name) :
                /\ ~Truthy(calls[c].args[a])
                /\ ErrorOf(calls[c].outcome).kind \in RequiredErrors(a)

\* the invocation has no credential: no truthy api_token argument and no
\* configured default (index.ts, server.ts), an empty cell (part_001)
NoCredential(cr) ==
    \/ /\ cr.disp \in {"sdk", "mcp"}
       /\ ~Truthy(cr.args.api_token)
       /\ ~Truthy(config)
    \/ /\ cr.disp = "session"
       /\ ~Truthy(API_TOKEN)

\* C13: an invocation without a per-call credential and without a session
\* or default credential has ended before any fetch, or has only its own
\* catch left to run: it issues no upstream request, whatever the tool
\* (index.ts, server.ts /mcp, part_001).
C13_NoCredentialNoRequest ==
    \A c \in Slots :
        calls[c].pc \notin {"idle", "listed"} /\ NoCredential(calls[c]) =>
            /\ calls[c].sent = <<>>
            /\ calls[c].pc \in {"done", "await_rejected"}

\* get_users of part_001 with an empty cell: refused, nothing sent
C13_Witness ==
    \E c \in Slots :
        /\ Done(c)
        /\ calls[c].disp = "session"
        /\ calls[c].name = "freshrelease_get_users"
        /\ NoCredential(calls[c])
        /\ calls[c].sent = <<>>
        /\ IsErrorOutcome(calls[c].outcome)
        /\ ErrorOf(calls[c].outcome).kind = "session_token_required"

\* the names of a listing
ListedNames(tools) == {tools[i] : i \in 1..Len(tools)}

\* C14: a tools/list answer names no tool twice, and two answers of the
\* same server are the same names in the same order, whatever tool calls
\* ran before either.
C14_ListingStable ==
    \A c \in Slots :
        calls[c].pc = "listed" =>
            /\ \A i, j \in 1..Len(calls[c].outcome.tools) :
                    calls[c].outcome.tools[i] = calls[c].outcome.tools[j] => i = j
            /\ Len(calls[c].outcome.tools) >= 1
            /\ \A d \in Slots :
                    calls[d].pc = "listed" /\ calls[d].disp = calls[c].disp =>
                        calls[d].outcome.tools = calls[c].outcome.tools

\* two tools/list answers of index.ts held at once
C14_Witness ==
    /\ calls["c1"].pc = "listed"
    /\ calls["c2"].pc = "listed"
    /\ calls["c1"].disp = "sdk"
    /\ calls["c2"].disp = "sdk"
    /\ Len(calls["c1"].outcome.tools) = 8

\* the invocation ended in the unknown-tool condition
EndsUnknownTool(o) == IsErrorOutcome(o) /\ ErrorOf(o).kind = "unknown_tool"

\* C15: a tool name ends in the unknown-tool condition exactly when
\* tools/list of the same server does not name it, and a name that is not
\* listed gets an error outcome, never empty or undefined content
\* (index.ts, part_005).
C15_RegistryMatchesDispatcher ==
    \A c \in Slots :
        Done(c) /\ calls[c].disp \in {"sdk", "mcp0"} =>
            /\ calls[c].name \in ListedNames(ToolsList(calls[c].disp))
                    <=> ~EndsUnknownTool(calls[c].outcome)
            /\ calls[c].name \notin ListedNames(ToolsList(calls[c].disp))
                    => IsErrorOutcome(calls[c].outcome)

\* C16: get_users with a credential issues exactly one upstream request,
\* GET /{project_key}/users?page=N with N the supplied page, or 1 when no
\* page is supplied, and when that is answered with a JSON body returns the
\* body as the only content item of a non-error outcome (server.ts /mcp,
\* part_001, index.ts).
C16_GetUsersOneRequest ==
    \A c \in Slots :
        ( /\ calls[c].name = "freshrelease_get_users"
          /\ calls[c].disp \in {"sdk", "mcp", "session"}
          /\ calls[c].pc \notin {"idle", "listed"}
          /\ ~NoCredential(calls[c]) )
        => /\ Len(calls[c].sent) = 1
           /\ calls[c].sent[1].method = "GET"
           /\ calls[c].sent[1].path.resource = "users"
           /\ calls[c].sent[1].path.page =
                TemplateStr(DestructureDefault(calls[c].args.page, Num(1)))
           /\ ( /\ Done(c)
                /\ calls[c].got[1].net
                /\ Ok(calls[c].got[1])
                /\ calls[c].got[1].parsable )
              => calls[c].outcome =
                    Result(JsonText(UpstreamPayload(calls[c].got[1].body)), FALSE)

\* the resolution GET was answered without success or without an issue.id
ResolutionFailed(cr) ==
    /\ Len(cr.got) >= 1
    /\ cr.got[1].net
    /\ \/ ~Ok(cr.got[1])
       \/ cr.got[1].parsable /\ ~Truthy(IssueIdOf(cr.got[1].body))

\* C17: in add_comment and get_comments of index.ts, a resolution GET
\* answered with a non-success status or a body without issue.id ends the
\* invocation with an error outcome (issue not found, no issue id) after
\* that one request; a request on /issues/{id}/comments is the second
\* request and has the truthy id of the successful first answer.
C17_NoSecondCallWithoutId ==
    \A c \in Slots :
        calls[c].disp = "sdk"
            /\ calls[c].name \in {"freshrelease_add_comment",
                                  "freshrelease_get_comments"} =>
        /\ ResolutionFailed(calls[c]) =>
                /\ Done(c)
                /\ IsErrorOutcome(calls[c].outcome)
                /\ ErrorOf(calls[c].outcome).kind
                        \in {"issue_not_found", "no_issue_id"}
                /\ Len(calls[c].sent) = 1
        /\ \A i \in 1..Len(calls[c].sent) :
                calls[c].sent[i].path.sub = "comments" =>
                    /\ i = 2
                    /\ ~ResolutionFailed(calls[c])
                    /\ calls[c].got[1].net /\ calls[c].got[1].parsable
                    /\ Truthy(IssueIdOf(calls[c].got[1].body))
                    /\ calls[c].sent[i].path.id =
                            TemplateStr(IssueIdOf(calls[c].got[1].body))

\* get_comments whose lookup was answered 200 with no issue.id
C17_Witness ==
    \E c \in Slots :
        /\ Done(c)
        /\ calls[c].disp = "sdk"
        /\ calls[c].name = "freshrelease_get_comments"
        /\ ResolutionFailed(calls[c])
        /\ calls[c].got[1].status = 200
        /\ Len(calls[c].sent) = 1
        /\ ErrorOf(calls[c].outcome).kind = "no_issue_id"

\* the answer ends the pagination: a rejected fetch, a non-success status,
\* a body that is no JSON, or a page without users
EndsPagination(r) ==
    \/ ~r.net
    \/ ~Ok(r)
    \/ ~r.parsable
    \/ Len(UsersOf(r.body)) = 0

\* the page requests so far are pages 1, 2, 3, ... and at most maxPages,
\* and none follows an answer that ends the pagination
PagesInOrder(cr) ==
    /\ Len(cr.sent) <= maxPages
    /\ Len(cr.got) <= Len(cr.sent)
    /\ Len(cr.sent) <= Len(cr.got) + 1
    /\ \A i \in 1..Len(cr.sent) :
            cr.sent[i] = UsersPageRequest(cr.project, Num(i), cr.token)
    /\ \A i \in 1..Len(cr.got) :
            EndsPagination(cr.got[i]) => Len(cr.sent) = i /\ cr.pc = "done"

\* C18: the search requests pages 1, 2, 3, ... without gap or repetition,
\* at most maxPages of them, none after the first page that is empty or not
\* a success, and an invocation waiting for a page always finishes.
C18_PaginationBoundedAndOrdered ==
    /\ [](\A c \in Slots :
            calls[c].name = "freshrelease_search_user_by_name"
                => PagesInOrder(calls[c]))
    /\ \A c \in Slots : (calls[c].pc = "await_page") ~> (calls[c].pc = "done")

\* the ceiling: maxPages pages requested, the last one holding users, done
C18_Witness ==
    \E c \in Slots :
        /\ Done(c)
        /\ calls[c].name = "freshrelease_search_user_by_name"
        /\ Len(calls[c].sent) = maxPages
        /\ Len(calls[c].got) = maxPages
        /\ ~EndsPagination(calls[c].got[maxPages])

\* the text field v holds the name as a substring, letter case aside
ContainsCI(v, name) ==
    /\ v.t = "string"
    /\ \E off \in 0..(Len(v.s) - Len(name.s)) :
            \A k \in 1..Len(name.s) :
                LowerChar(v.s[off + k]) = LowerChar(name.s[k])

NameOrEmailContains(u, name) ==
    ContainsCI(u.name, name) \/ ContainsCI(u.email, name)

\* the users of the answered pages 1..n, in page order and upstream order
RECURSIVE FetchedUsers(_, _)
FetchedUsers(got, n) ==
    IF n = 0 THEN <<>>
    ELSE FetchedUsers(got, n - 1)
            \o (IF got[n].net /\ Ok(got[n]) /\ got[n].parsable
                THEN UsersOf(got[n].body) ELSE <<>>)

\* the payload is found = true with exactly the id, name and email u has
ReturnsUser(o, u) ==
    /\ o.kind = "result"
    /\ ~o.isError
    /\ Len(o.content) = 1
    /\ o.content[1].text.form = "json"
    /\ o.content[1].text.payload.kind = "search"
    /\ o.content[1].text.payload.found
    /\ DOMAIN o.content[1].text.payload.user
            = {f \in {"id", "name", "email"} : u[f].t # "undefined"}
    /\ \A f \in DOMAIN o.content[1].text.payload.user :
            o.content[1].text.payload.user[f] = u[f]

\* C19: a search whose pagination ended returns the earliest user, in page
\* order and within a page in upstream order, whose name or email contains
\* the search string without regard to case, as a record of that user's
\* id, name and email; a user without a name or an email is matched on the
\* other field and raises no error.
C19_FirstMatchWins ==
    \A c \in Slots :
        PaginationEnded(calls[c]) =>
            LET us == FetchedUsers(calls[c].got, Len(calls[c].got)) IN
            \A i \in 1..Len(us) :
                ( /\ NameOrEmailContains(us[i], calls[c].args.name)
                  /\ \A j \in 1..(i - 1) :
                        ~NameOrEmailContains(us[j], calls[c].args.name) )
                => ReturnsUser(calls[c].outcome, us[i])

\* "N" is found in the email of the second user, who has no name, after a
\* first user that does not match
C19_Witness ==
    \E c \in Slots :
        /\ PaginationEnded(calls[c])
        /\ calls[c].args.name = Str(<<"N">>)
        /\ Len(calls[c].got) >= 2
        /\ ReturnsUser(calls[c].outcome, UNo)
        /\ UNo.name = Undef
        /\ FetchedUsers(calls[c].got, 1)[1] = UBo

\* the position of the primary fetch among the requests of an invocation:
\* the second where a key is resolved first
PrimaryIndex(cr) ==
    IF cr.disp \in KeyResolving
            /\ cr.name \in {"freshrelease_add_comment", "freshrelease_get_comments"}
    THEN 2 ELSE 1

\* the primary fetch was answered with a status that is not 2xx, get_issue's
\* 404 aside
PrimaryNon2xx(cr) ==
    /\ cr.name # "freshrelease_search_user_by_name"
    /\ Len(cr.got) = PrimaryIndex(cr)
    /\ cr.got[PrimaryIndex(cr)].net
    /\ ~Ok(cr.got[PrimaryIndex(cr)])
    /\ ~(cr.name = "freshrelease_get_issue"
            /\ cr.got[PrimaryIndex(cr)].status = 404)

\* C20: a tool whose primary fetch is answered with a non-2xx status (other
\* than get_issue's 404) ends with an error outcome (isError true), and no
\* request of the invocation is issued twice (index.ts, part_001,
\* server.ts /mcp).
C20_Non2xxIsErrorNoRetry ==
    \A c \in Slots :
        ( /\ Done(c)
          /\ calls[c].disp \in {"sdk", "mcp", "session"}
          /\ PrimaryNon2xx(calls[c]) )
        => /\ IsErrorOutcome(calls[c].outcome)
           /\ \A i, j \in 1..Len(calls[c].sent) :
                    calls[c].sent[i] = calls[c].sent[j] => i = j

\* v is an integer or the text of one in decimal digits
IsNumeral(v) ==
    \/ v.t = "number"
    \/ v.t = "string" /\ v.s # <<>> /\ \A i \in 1..Len(v.s) : IsDigit(v.s[i])

\* the integer a numeral denotes: the one whose decimal text it is
IntegerOf(v) ==
    IF v.t = "number" THEN v
    ELSE Num(CHOOSE k \in 0..99 : NatChars(k) = v.s)

\* an id field of a body for a supplied value: an integer, never null and
\* never a string, and the integer the value denotes when it is a numeral
IdFieldFor(field, supplied) ==
    /\ field.t = "number"
    /\ IsNumeral(supplied) => field = IntegerOf(supplied)

\* C21: create_issue sends one POST to /{project_key}/issues with a body
\* { issue: {...} } holding the title as given, the description as given
\* or "", key the resolved project key, issue_type_id the integer of the
\* supplied one, or 14 when none is supplied, and owner_id, priority_id,
\* status_id the integer of the supplied one, or null when none is supplied;
\* an id field is an integer or null, never a string (index.ts, server.ts
\* /mcp).
C21_CreateBodyShape ==
    \A c \in Slots :
        ( /\ calls[c].name = "freshrelease_create_issue"
          /\ calls[c].disp \in {"sdk", "mcp"}
          /\ Len(calls[c].sent) >= 1 )
        => LET cr == calls[c]
               req == cr.sent[1]
               issue == req.body.issue
               project_key == DestructureDefault(cr.args.project_key, FBOTS)
           IN
           /\ Len(cr.sent) = 1
           /\ req.method = "POST"
           /\ req.path.project = project_key.s
           /\ req.path.resource = "issues"
           /\ req.path.id = <<>> /\ req.path.sub = ""
           /\ req.body.kind = "issue"
           /\ DOMAIN issue \subseteq
                {"title", "description", "key", "issue_type_id", "owner_id",
                 "priority_id", "status_id"}
           /\ Truthy(cr.args.title) => issue["title"] = cr.args.title
           /\ issue["description"] =
                (IF Truthy(cr.args.description) THEN cr.args.description
                 ELSE Str(<<>>))
           /\ issue["key"] = project_key
           /\ IF Truthy(cr.args.issue_type_id)
              THEN IdFieldFor(issue["issue_type_id"], cr.args.issue_type_id)
              ELSE issue["issue_type_id"] = Num(14)
           /\ \A f \in {"owner_id", "priority_id", "status_id"} :
                IF Truthy(cr.args[f]) THEN IdFieldFor(issue[f], cr.args[f])
                ELSE issue[f] = Null

\* the tools of index.ts that derive the project from the issue key
KeyedTools ==
    {"freshrelease_get_issue", "freshrelease_update_issue",
     "freshrelease_add_comment", "freshrelease_get_comments"}

\* p is what stands in key before its first '-'
IsPrefixBeforeDash(p, key) ==
    /\ Len(p) < Len(key)
    /\ key[Len(p) + 1] = "-"
    /\ \A i \in 1..Len(p) : p[i] = key[i] /\ p[i] # "-"

\* C22: in get_issue, update_issue, add_comment and get_comments of
\* index.ts every upstream path has as project the part of issue_key before
\* its first '-', the first request has the issue key unchanged in the
\* path, and the two requests of a two-step operation have the same
\* project; with a credential, an issue key without '-' ends in the
\* invalid-key error and no request, not in a default project.
C22_ProjectFromIssueKey ==
    \A c \in Slots :
        calls[c].disp = "sdk" /\ calls[c].name \in KeyedTools =>
            /\ \A i \in 1..Len(calls[c].sent) :
                /\ IsPrefixBeforeDash(calls[c].sent[i].path.project,
                                      calls[c].args.issue_key.s)
                /\ calls[c].sent[i].path.project = calls[c].sent[1].path.project
                /\ calls[c].sent[i].path.resource = "issues"
            /\ Len(calls[c].sent) >= 1 =>
                    calls[c].sent[1].path.id = calls[c].args.issue_key.s
            /\ ( /\ Done(c)
                 /\ ~NoCredential(calls[c])
                 /\ Truthy(calls[c].args.issue_key)
                 /\ calls[c].name = "freshrelease_add_comment"
                        => Truthy(calls[c].args.content)
                 /\ \A i \in 1..Len(calls[c].args.issue_key.s) :
                        calls[c].args.issue_key.s[i] # "-" )
               => /\ calls[c].sent = <<>>
                  /\ IsErrorOutcome(calls[c].outcome)
                  /\ ErrorOf(calls[c].outcome) =
                        Err("invalid_issue_key", calls[c].args.issue_key)

\* add_comment on AB-2-3: both requests under project AB
C22_Witness ==
    \E c \in Slots :
        /\ calls[c].disp = "sdk"
        /\ calls[c].name = "freshrelease_add_comment"
        /\ calls[c].args.issue_key = Str(<<"A", "B", "-", "2", "-", "3">>)
        /\ Len(calls[c].sent) = 2
        /\ calls[c].sent[1].path.project = <<"A", "B">>
        /\ calls[c].sent[2].path.project = <<"A", "B">>
        /\ calls[c].sent[1].path.id = <<"A", "B", "-", "2", "-", "3">>


\* the tools that take a project_key argument
ProjectKeyTools ==
    {"freshrelease_search_user_by_name", "freshrelease_get_statuses",
     "freshrelease_get_issue_types", "freshrelease_create_issue",
     "freshrelease_get_users"}

\* C23: for every tool that takes project_key, the upstream path uses FBOTS
\* when no project key is supplied and the supplied key otherwise, under one
\* rule for all of these tools, so that no request has an empty project
\* segment.  (Violated: search_user_by_name takes the default only for an
\* absent key and sends an empty one as it is.)
C23_ProjectKeyDefault ==
    \A c \in Slots :
        calls[c].disp \in {"sdk", "mcp"} /\ calls[c].name \in ProjectKeyTools =>
            \A i \in 1..Len(calls[c].sent) :
                /\ calls[c].sent[i].path.project # <<>>
                /\ calls[c].sent[i].path.project =
                        OrDefault(calls[c].args.project_key, FBOTS).s


\* the credential of an invocation: the per-call api_token, else the default
ResolvedCredential(cr) ==
    IF Truthy(cr.args.api_token) THEN cr.args.api_token ELSE config

\* C24: every upstream request of an invocation of index.ts or of the /mcp
\* route, the key-resolution GET and the users page requests included,
\* carries Authorization "Token <credential>" with one and the same
\* credential, the per-call api_token when there is one and the default
\* otherwise, and Content-Type application/json.
C24_ResolvedCredentialOnEveryRequest ==
    \A c \in Slots :
        calls[c].disp \in {"sdk", "mcp"} =>
            \A i \in 1..Len(calls[c].sent) :
                /\ calls[c].sent[i].auth =
                        <<"Token ">> \o ResolvedCredential(calls[c]).s
                /\ calls[c].sent[i].ctype = "application/json"

\* a search with its own api_token, on its second page, while a different
\* default credential is configured
C24_Witness ==
    \E c \in Slots :
        /\ calls[c].disp = "sdk"
        /\ calls[c].name = "freshrelease_search_user_by_name"
        /\ Len(calls[c].sent) >= 2
        /\ Truthy(calls[c].args.api_token)
        /\ config = EnvToken
        /\ calls[c].args.api_token # config
        /\ calls[c].sent[2].auth = <<"Token ">> \o calls[c].args.api_token.s
        /\ calls[c].sent[2].ctype = "application/json"


\* a step in which slot c takes a call of the session handler (part_001)
SessionEntry(c) == calls[c].pc = "idle" /\ calls'[c].disp = "session"

\* the step is a set_api_token call that returned its confirmation
SetsToken(c) ==
    /\ SessionEntry(c)
    /\ calls'[c].name = "freshrelease_set_api_token"
    /\ ~IsErrorOutcome(calls'[c].outcome)

\* C25: in the session handler a set_api_token(t) that returns leaves t in
\* the credential cell and sends nothing upstream; every other step leaves
\* the cell alone; and every request a tool call sends carries the value of
\* the cell, that of the latest set_api_token.
C25_SessionCredentialPersists ==
    [][ /\ \A c \in Slots :
            /\ SetsToken(c) =>
                    /\ API_TOKEN' = calls'[c].args.api_token
                    /\ calls'[c].sent = <<>>
                    /\ calls'[c].pc = "done"
            /\ SessionEntry(c) /\ ~SetsToken(c) =>
                    /\ API_TOKEN' = API_TOKEN
                    /\ \A i \in 1..Len(calls'[c].sent) :
                            calls'[c].sent[i].auth = <<"Token ">> \o API_TOKEN.s
            /\ calls[c].disp = "session" /\ calls'[c].disp = "session" =>
                    calls'[c].sent = calls[c].sent
        /\ (\A c \in Slots : ~SetsToken(c)) => API_TOKEN' = API_TOKEN
      ]_vars

\* a tool call whose request carries a token that only set_api_token can
\* have put into the cell
C25_Witness ==
    \E c \in Slots :
        /\ calls[c].disp = "session"
        /\ calls[c].name = "freshrelease_create_issue"
        /\ Len(calls[c].sent) = 1
        /\ Truthy(API_TOKEN)
        /\ API_TOKEN # DEFAULT_API_TOKEN(config)
        /\ calls[c].sent[1].auth = <<"Token ">> \o API_TOKEN.s


\* the tools that resolve the issue key to an id and then use the id
TwoStepTools == {"freshrelease_add_comment", "freshrelease_get_comments"}

\* slot c runs a two-step tool while slot d runs one on another issue key
InterleavedTwoStep(c, d) ==
    /\ c # d
    /\ calls[c].disp \in KeyResolving /\ calls[d].disp \in KeyResolving
    /\ calls[c].name \in TwoStepTools /\ calls[d].name \in TwoStepTools
    /\ calls[c].pc # "idle" /\ calls[d].pc # "idle"
    /\ calls[c].args.issue_key # calls[d].args.issue_key

\* what a finished two-step invocation returns for its own key, id and
\* second answer
OwnTwoStepPayload(cr) ==
    IF cr.name = "freshrelease_add_comment"
    THEN CommentAddedPayload(cr.args.issue_key, IssueIdOf(cr.got[1].body),
                             cr.got[2].body)
    ELSE CommentsPayload(cr.args.issue_key, IssueIdOf(cr.got[1].body),
                         cr.got[2].body)

\* C26: when two two-step invocations on different issue keys run
\* interleaved, the second request of each is addressed to the id that the
\* answer to its own first request carried, and a successful outcome of
\* each holds its own issue_key, its own id and the payload of its own
\* second answer.
C26_TwoStepIsolated ==
    \A c \in Slots : \A d \in Slots :
        InterleavedTwoStep(c, d) =>
            /\ Len(calls[c].sent) <= 2
            /\ Len(calls[c].sent) = 2 =>
                /\ calls[c].sent[1].path.id = calls[c].args.issue_key.s
                /\ calls[c].sent[2].path.id =
                        TemplateStr(IssueIdOf(calls[c].got[1].body))
                /\ calls[c].sent[2].path.sub = "comments"
            /\ ( Done(c) /\ ~IsErrorOutcome(calls[c].outcome)
                    /\ Len(calls[c].got) = 2 )
               => calls[c].outcome.content =
                        <<TextItem(JsonText(OwnTwoStepPayload(calls[c])))>>

\* one invocation has finished with id 1 while the other, started before
\* that, waits for its second answer with id 2
C26_Witness ==
    /\ InterleavedTwoStep("c1", "c2")
    /\ Done("c1") /\ ~IsErrorOutcome(calls["c1"].outcome)
    /\ Len(calls["c1"].got) = 2
    /\ calls["c1"].sent[2].path.id = <<"1">>
    /\ calls["c1"].outcome.content[1].text.payload.issue_id = Num(1)
    /\ calls["c2"].pc = "await_primary"
    /\ Len(calls["c2"].sent) = 2
    /\ calls["c2"].sent[2].path.id = <<"2">>


\* the four id fields of an issue body
IdFields == {"issue_type_id", "status_id", "owner_id", "priority_id"}

\* C27: the PUT body of update_issue (index.ts, /mcp route) has no field
\* with the value null, and each of the four id fields it has is an
\* integer, also when the argument was a non-numeric string.  (Violated:
\* parseInt of a non-numeric string is NaN, written as null.)
C27_UpdateNoNullIdsInteger ==
    \A c \in Slots :
        /\ calls[c].disp \in {"sdk", "mcp"}
        /\ calls[c].name = "freshrelease_update_issue"
        => \A i \in 1..Len(calls[c].sent) :
            calls[c].sent[i].method = "PUT" =>
                LET issue == calls[c].sent[i].body.issue IN
                /\ \A f \in DOMAIN issue : issue[f] # Null
                /\ \A f \in IdFields \cap DOMAIN issue : issue[f].t = "number"


\* the number of answers among got that let the pagination go on
RECURSIVE ContinuingAnswers(_, _)
ContinuingAnswers(got, n) ==
    IF n = 0 THEN 0
    ELSE ContinuingAnswers(got, n - 1)
            + (IF EndsPagination(got[n]) THEN 0 ELSE 1)

\* the number of page requests that the answers received and the ceiling
\* call for
PageRequestsDue(got) ==
    IF ContinuingAnswers(got, Len(got)) + 1 <= maxPages
    THEN ContinuingAnswers(got, Len(got)) + 1
    ELSE maxPages

\* C28: in a search that has started to paginate, the page requests are
\* pages 1, 2, ... and their number is fixed by the answers received and the
\* ceiling alone, whatever the searched name and whether or not a fetched
\* page holds a match; a result of the matching exists only once the last
\* request was answered by an answer that ends the pagination or was the
\* request of the ceiling page.
C28_PaginationIgnoresName ==
    \A c \in Slots :
        /\ calls[c].name = "freshrelease_search_user_by_name"
        /\ calls[c].disp \in {"sdk", "mcp"}
        /\ Len(calls[c].sent) >= 1
        => /\ Len(calls[c].sent) = PageRequestsDue(calls[c].got)
           /\ \A i \in 1..Len(calls[c].sent) :
                /\ calls[c].sent[i].method = "GET"
                /\ calls[c].sent[i].path.resource = "users"
                /\ calls[c].sent[i].path.page = NatChars(i)
           /\ calls[c].outcome # NoOutcome =>
                /\ Len(calls[c].got) = Len(calls[c].sent)
                /\ \/ EndsPagination(calls[c].got[Len(calls[c].got)])
                   \/ Len(calls[c].sent) = maxPages

\* the first page holds a match and the search went on to fetch two more
\* pages before it returned that user
C28_Witness ==
    \E c \in Slots :
        /\ Done(c)
        /\ calls[c].name = "freshrelease_search_user_by_name"
        /\ calls[c].disp = "sdk"
        /\ Len(calls[c].sent) = 3
        /\ calls[c].args.name.t = "string"
        /\ ~EndsPagination(calls[c].got[1])
        /\ FindUser(UsersOf(calls[c].got[1].body),
                    toLowerCase(calls[c].args.name.s)).value # 0
        /\ ~IsErrorOutcome(calls[c].outcome)
        /\ calls[c].outcome.content[1].text.payload.found


\* the search of slot c, with a name that is a string, has finished and its
\* last page request, page k, was answered with a non-success status
StatusEndedSearch(c, k) ==
    /\ Done(c)
    /\ calls[c].name = "freshrelease_search_user_by_name"
    /\ calls[c].disp \in {"sdk", "mcp"}
    /\ calls[c].args.name.t = "string"
    /\ Len(calls[c].got) = k
    /\ calls[c].got[k].net
    /\ ~Ok(calls[c].got[k])

\* C29: a page request answered with a non-success status is not reported
\* as an error: the search returns the result of matching over the users of
\* pages 1..k-1, and when the first page fails that result is found = false
\* with the searched name.
C29_PageFailureIsNotError ==
    \A c \in Slots : \A k \in 1..maxPages :
        StatusEndedSearch(c, k) =>
            /\ ~IsErrorOutcome(calls[c].outcome)
            /\ calls[c].outcome.kind = "result"
            /\ Len(calls[c].sent) = k
            /\ calls[c].outcome.content =
                    <<TextItem(JsonText(
                        SearchResult(FetchedUsers(calls[c].got, k - 1),
                                     calls[c].args.name)))>>
            /\ k = 1 =>
                    calls[c].outcome.content =
                        <<TextItem(JsonText(NotFoundPayload(calls[c].args.name)))>>

\* page 2 fails with 500 and the user found is one of page 1
C29_Witness ==
    \E c \in Slots :
        /\ StatusEndedSearch(c, 2)
        /\ calls[c].got[2].status = 500
        /\ ~IsErrorOutcome(calls[c].outcome)
        /\ calls[c].outcome.content[1].text.payload.found


\* the two slots hold finished invocations of one request whose required
\* arguments and credential are present and whose every upstream answer was
\* the same 2xx with a JSON body, that of an issue lookup with the issue's id
WellFormedPair ==
    /\ \A c \in Slots : Done(c)
    /\ calls["c1"].name = calls["c2"].name
    /\ calls["c1"].args = calls["c2"].args
    /\ calls["c1"].disp # calls["c2"].disp
    /\ \A i \in 1..Len(calls["c1"].got) :
            i <= Len(calls["c2"].got) => calls["c1"].got[i] = calls["c2"].got[i]
    /\ \A c \in Slots :
        /\ Truthy(calls[c].token)
        /\ \A a \in RequiredArgs(calls[c].name) : Truthy(calls[c].args[a])
        /\ calls[c].name \in KeyedTools => WellFormedKey(calls[c].args.issue_key)
        /\ \A i \in 1..Len(calls[c].got) :
                calls[c].got[i].net /\ Ok(calls[c].got[i]) /\ calls[c].got[i].parsable
        /\ calls[c].name \in TwoStepTools /\ Len(calls[c].got) >= 1 =>
                Truthy(IssueIdOf(calls[c].got[1].body))

\* method, path and body of the requests of an invocation
RequestsOf(cr) ==
    [i \in 1..Len(cr.sent) |->
        [method |-> cr.sent[i].method, path |-> cr.sent[i].path,
         body |-> cr.sent[i].body]]

\* C30: given the same tool name, the same arguments with the required
\* fields, the same credential and the same 2xx answers, the SDK handler,
\* the REST route and the /mcp route issue the same upstream requests and
\* return the same content text.  (Violated: index.ts has no get_users.)
C30_DispatchersEquivalent ==
    WellFormedPair =>
        /\ RequestsOf(calls["c1"]) = RequestsOf(calls["c2"])
        /\ calls["c1"].outcome.kind = "result"
        /\ calls["c2"].outcome.kind = "result"
        /\ calls["c1"].outcome.content = calls["c2"].outcome.content

====
